---- MODULE Spec2Model ----
(***************************************************************************)
(* A model of the KinOS orchestration engine:                              *)
(*   - the asyncio runner pool        (managers/agent_runner.py)           *)
(*   - the threaded team loop         (kinos_cli.py)                       *)
(*   - the phase controller           (services/phase_service.py)          *)
(*   - the editor cycle and its version-control snapshots                  *)
(*                                    (managers/aider_manager.py)          *)
(*   - one agent cycle and its planner (managers/objective_manager.py)     *)
(*   - the project map                (services/map_service.py)            *)
(*   - the context map and the editor command                              *)
(*                                    (managers/aider_manager.py)          *)
(*   - the agent monitor              (parallagon_web.py)                  *)
(*   - stopping an agent              (agents/kinos_agent.py)              *)
(*   - the SearchReplace operations   (search_replace.py)                  *)
(* Every subsystem has its own specification over the shared variables;    *)
(* the variables of the other subsystems stay at their constructed values. *)
(***************************************************************************)
EXTENDS Naturals, Integers, FiniteSets, Sequences, TLC

None == "None"

Min(a, b) == IF a < b THEN a ELSE b

(***************************************************************************)
(* Bounds of the model.                                                    *)
(***************************************************************************)
\* how many of the ten agent types are modelled
MaxAgents == 3
\* largest agent_count (K) AgentRunner.run is called with
MaxK == 2

\* agent_runner.py _get_available_agents: the closed list of agent types
AgentTypes ==
    << "specification", "management", "redaction", "evaluation",
       "deduplication", "chroniqueur", "redondance", "production",
       "chercheur", "integration" >>

Agents == { AgentTypes[i] : i \in 1..Min(MaxAgents, Len(AgentTypes)) }

\* identities of the asyncio cycle tasks alive at one time
TaskIds == 1..Cardinality(Agents)

VARIABLES
    \* ---- the mission directory (shared filesystem)
    mission_exists,     \* os.path.exists(mission_filepath)
    agent_files,        \* agent types whose .aider.agent.<type>.md exists
    \* ---- AgentRunner.run (asyncio), its arguments and locals
    generate_agents,    \* argument generate_agents
    agent_count,        \* argument agent_count (K)
    run_pc,             \* position of the run coroutine
    available_agents,   \* local available_agents (computed once, line 65)
    spawn_i,            \* tasks created so far by the initial for loop
    spawn_n,            \* range bound of the initial for loop
    tasks,              \* local tasks
    done,               \* done tasks the for loop of line 84 has still to visit
    pending,            \* local pending
    cur,                \* the done task whose replacement is being delayed
    \* ---- the cycle tasks (_run_single_agent_cycle)
    task_pc,
    task_agent,         \* local agent_name (None once the task has ended)
    task_result,        \* how the body of the try ended
    _running_agents,
    _agent_lock,        \* 0 when free, else the task holding it
    \* ---- run_team_loop and its AgentRunner threads (kinos_cli.py)
    team_agents,        \* load_team_config(team_name)
    phase_weights,      \* the weights dict of the current phase
    main_pc,            \* position of run_team_loop
    active_threads,     \* runner threads started by run_team_loop
    thr_pc,             \* position of each runner thread
    thr_agent,          \* each runner's self.agent_name
    thr_running,        \* each runner's self.running
    \* ---- PhaseService
    current_phase,
    last_transition,
    total_tokens,
    now,                \* the clock read by datetime.now()
    calls,              \* the calls made so far: argument and returned phase
    dp_pc,              \* position of each thread inside determine_phase
    dp_arg,             \* its parameter total_tokens
    dp_old,             \* its local old_phase
    dp_new,             \* its local new_phase
    \* ---- one editor cycle (AiderManager._execute_aider)
    git_state,          \* the index: path -> hash, 0 when the path is untracked
    aider_pc,
    phase_idx,          \* which of the three phases is running
    initial_state,      \* snapshot taken before the editor ran
    final_state,        \* snapshot taken after the editor returned
    modified_files,     \* result of the last _get_modified_files
    phase_files,        \* modified files returned by the phases so far
    all_changes,
    events,             \* subprocesses run by the cycle, in order
    cmd,                \* the parameter cmd of _execute_aider
    phase_cmds,         \* the phase_cmd of every phase launched so far
    \* ---- the cycles run in the executor (_execute_agent_cycle)
    objective_file,     \* content of .aider.objective.<agent>.md, 0 = absent
    map_file,           \* content of .aider.map.<agent>.md, 0 = absent
    cyc_pc,             \* position of each agent's cycle
    cyc_content,        \* local objective of generate_objective
    cyc_runs,           \* cycles started so far for each agent
    cyc_events,         \* what each agent's current cycle has done, in order
    \* ---- MapService.generate_map and the readers of map.md
    map_md,             \* the lines of map.md on disk
    gen_pc,             \* position of the generate_map call
    unreadable,         \* directories whose os.listdir raises
    tree_content,       \* local tree_content of generate_map
    map_content,        \* local map_content of generate_map
    written,            \* lines of map_content that reached the disk
    gen_result,         \* what generate_map returned
    generated,          \* generate_map calls made so far (the timestamp)
    map_seen,           \* what the last get_map_content returned
    map_versions,       \* every complete content map.md has been given
    \* ---- the context map of a cycle and the editor command
    listed,             \* the "- <path>" lines of .aider.map.<agent>.md
    disk,               \* the listed paths that exist
    dirs,               \* the directories that exist below the mission root
    load_pc,            \* position of the _load_context_map call
    context_files,      \* what _load_context_map returned
    launch_pc,          \* position of _run_aider_with_encoding
    cmd_files,          \* the --file arguments of the editor command
    \* ---- the per-agent histories, the editor command and the environment
    hist_pc,            \* position of each agent between planner and editor
    hist_runs,          \* editor commands built so far for each agent
    hist_files,         \* sessions recorded in every history file, 0 = absent
    chat_file,          \* local chat_file of _create_objective_prompt
    chat_history,       \* local chat_history of _create_objective_prompt
    ed_cmd,             \* the list _build_aider_command returned
    environ,            \* os.environ["PYTHONPATH"], split at os.pathsep
    environ_before,     \* its value when the process started
    \* ---- the web application's agents and their monitor (parallagon_web.py)
    ag_running,         \* agent.running of each agent
    ag_last_run,        \* agent.last_run: None, recent, or older than 30 s
    loop_pc,            \* position of every thread running agent.run
    loops_started,      \* threads created so far for each agent
    mon_pc,             \* position of monitor_agents
    mon_agent,          \* the agent the monitor is restarting
    stop_called,        \* agent.stop() was called and agent.start() not since
    \* ---- one call of a SearchReplace operation (search_replace.py)
    sr_pc,              \* "input" before the call, "done" after it
    sr_op,              \* the operation called
    sr_doc,             \* the sections the document was written from
    sr_content,         \* the argument content
    sr_old,             \* old_str, or section_name
    sr_new,             \* new_str, new_section_content or new_entry
    sr_result           \* the SearchReplaceResult returned

runnerVars ==
    << mission_exists, agent_files, generate_agents, agent_count, run_pc,
       available_agents, spawn_i, spawn_n, tasks, done, pending, cur,
       task_pc, task_agent, task_result, _running_agents, _agent_lock >>

teamVars ==
    << team_agents, phase_weights, main_pc, active_threads, thr_pc, thr_agent,
       thr_running >>

phaseVars ==
    << current_phase, last_transition, total_tokens, now, calls,
       dp_pc, dp_arg, dp_old, dp_new >>

aiderVars ==
    << git_state, aider_pc, phase_idx, initial_state, final_state,
       modified_files, phase_files, all_changes, events, cmd, phase_cmds >>

planVars ==
    << objective_file, map_file, cyc_pc, cyc_content, cyc_runs, cyc_events >>

mapVars ==
    << map_md, gen_pc, unreadable, tree_content, map_content, written,
       gen_result, generated, map_seen, map_versions >>

contextVars ==
    << listed, disk, dirs, load_pc, context_files, launch_pc, cmd_files >>

historyVars ==
    << hist_pc, hist_runs, hist_files, chat_file, chat_history, ed_cmd,
       environ, environ_before >>

ctxVars == << contextVars, historyVars >>

webVars ==
    << ag_running, ag_last_run, loop_pc, loops_started, mon_pc, mon_agent,
       stop_called >>

editVars ==
    << sr_pc, sr_op, sr_doc, sr_content, sr_old, sr_new, sr_result >>

vars ==
    << runnerVars, teamVars, phaseVars, aiderVars, planVars, mapVars,
       ctxVars, webVars, editVars >>

(***************************************************************************)
(* AgentRunner (managers/agent_runner.py)                                  *)
(***************************************************************************)

_agents_exist_Never(force_regenerate, files) == {}

\* _agents_exist: the agent types to generate
_agents_exist(force_regenerate, files) ==
    IF force_regenerate THEN Agents ELSE Agents \ files

\* _get_available_agents: the types whose role-prompt file is on disk
_get_available_agents(files) == { a \in Agents : a \in files }

\* AgentsManager.generate_agents: writes a role-prompt file for every type
GenerateAgentsResult(files) == files \cup Agents

MissionMissing_Ignored(exists) == FALSE

\* line 44: not os.path.exists(mission_filepath)
MissionMissing(exists) == ~exists

InitialSpawnCount_NoCap(K, avail) == Cardinality(avail)

\* line 70: range(min(agent_count, len(available_agents)))
InitialSpawnCount(K, avail) == Min(K, Cardinality(avail))

ShouldReplace_OffByOne(pend, K, avail) ==
    Cardinality(pend) + 1 < K /\ avail # {}

\* line 91: len(pending) < agent_count and available_agents
ShouldReplace(pend, K, avail) == Cardinality(pend) < K /\ avail # {}

ReapOutcome_NoCatch(result) == IF result = "exc" THEN "raise" ELSE "continue"

\* lines 85-88: await task inside try/except Exception
ReapOutcome(result) == "continue"

UnusedAgents_NoExclusion(avail, running) == avail

\* line 193: [a for a in available_agents if a not in self._running_agents]
UnusedAgents(avail, running) == { a \in avail : a \notin running }

\* asyncio.create_task(self._run_single_agent_cycle(...)) in slot s
TaskCreated(s) ==
    /\ task_pc' = [task_pc EXCEPT ![s] = "created"]
    /\ task_agent' = [task_agent EXCEPT ![s] = None]
    /\ task_result' = [task_result EXCEPT ![s] = "none"]

\* tasks that were created and have not finished
InFlight == { t \in TaskIds : task_pc[t] \notin {"free", "done"} }

InitRunner ==
    /\ mission_exists \in BOOLEAN
    /\ agent_files \in SUBSET Agents
    /\ generate_agents \in BOOLEAN
    /\ agent_count \in 0..MaxK
    /\ run_pc = "start"
    /\ available_agents = {}
    /\ spawn_i = 0
    /\ spawn_n = 0
    /\ tasks = {}
    /\ done = {}
    /\ pending = {}
    /\ cur = 0
    /\ task_pc = [t \in TaskIds |-> "free"]
    /\ task_agent = [t \in TaskIds |-> None]
    /\ task_result = [t \in TaskIds |-> "none"]
    /\ _running_agents = {}
    /\ _agent_lock = 0

\* lines 61-76 up to the first sleep: the pool is built from the files on disk
PoolInit(files) ==
    LET avail == _get_available_agents(files)
        n == InitialSpawnCount(agent_count, avail)
    IN  /\ available_agents' = avail
        /\ IF avail = {} \/ n = 0
           THEN \* ValueError: no agents available / no tasks could be created
                /\ run_pc' = "raised"
                /\ UNCHANGED << spawn_i, spawn_n, tasks, task_pc, task_agent,
                                task_result >>
           ELSE /\ run_pc' = "sleep10"
                /\ spawn_n' = n
                /\ spawn_i' = 1
                /\ tasks' = {1}
                /\ TaskCreated(1)

\* lines 43-59: mission check, then the check for missing agents
RunStart ==
    /\ run_pc = "start"
    /\ IF MissionMissing(mission_exists)
       THEN /\ run_pc' = "exit1"
            /\ UNCHANGED << available_agents, spawn_i, spawn_n, tasks,
                            task_pc, task_agent, task_result >>
       ELSE IF _agents_exist(generate_agents, agent_files) # {}
       THEN /\ run_pc' = "generate"
            /\ UNCHANGED << available_agents, spawn_i, spawn_n, tasks,
                            task_pc, task_agent, task_result >>
       ELSE PoolInit(agent_files)
    /\ UNCHANGED << mission_exists, agent_files, generate_agents, agent_count,
                    done, pending, cur, _running_agents, _agent_lock >>
    /\ UNCHANGED << teamVars, phaseVars, aiderVars, planVars, mapVars, ctxVars, webVars,
                    editVars >>

\* line 59 returns: the generated role prompts are on disk
RunGenerated ==
    /\ run_pc = "generate"
    /\ agent_files' = GenerateAgentsResult(agent_files)
    /\ PoolInit(agent_files')
    /\ UNCHANGED << mission_exists, generate_agents, agent_count,
                    done, pending, cur, _running_agents, _agent_lock >>
    /\ UNCHANGED << teamVars, phaseVars, aiderVars, planVars, mapVars, ctxVars, webVars,
                    editVars >>

\* lines 70-73: the 10 second sleep ends, the next task is created
RunSpawnNext ==
    /\ run_pc = "sleep10"
    /\ IF spawn_i < spawn_n
       THEN /\ spawn_i' = spawn_i + 1
            /\ tasks' = tasks \cup {spawn_i + 1}
            /\ TaskCreated(spawn_i + 1)
            /\ UNCHANGED run_pc
       ELSE /\ run_pc' = "wait"
            /\ UNCHANGED << spawn_i, tasks, task_pc, task_agent, task_result >>
    /\ UNCHANGED << mission_exists, agent_files, generate_agents, agent_count,
                    available_agents, spawn_n, done, pending, cur,
                    _running_agents, _agent_lock >>
    /\ UNCHANGED << teamVars, phaseVars, aiderVars, planVars, mapVars, ctxVars, webVars,
                    editVars >>

\* line 81: asyncio.wait(tasks, return_when=FIRST_COMPLETED) returns
RunWaitReturn ==
    /\ run_pc = "wait"
    /\ \E t \in tasks : task_pc[t] = "done"
    /\ done' = { t \in tasks : task_pc[t] = "done" }
    /\ pending' = tasks \ done'
    /\ run_pc' = "handle"
    /\ UNCHANGED << mission_exists, agent_files, generate_agents, agent_count,
                    available_agents, spawn_i, spawn_n, tasks, cur, task_pc,
                    task_agent, task_result, _running_agents, _agent_lock >>
    /\ UNCHANGED << teamVars, phaseVars, aiderVars, planVars, mapVars, ctxVars, webVars,
                    editVars >>

\* lines 84-92: one iteration of the for loop over done, up to the sleep
RunHandle ==
    /\ run_pc = "handle"
    /\ \E t \in done :
        /\ done' = done \ {t}
        /\ IF ReapOutcome(task_result[t]) = "raise"
           THEN /\ run_pc' = "raised"
                /\ UNCHANGED << cur, task_pc, task_agent, task_result >>
           ELSE IF ShouldReplace(pending, agent_count, available_agents)
           THEN /\ run_pc' = "sleep3"
                /\ cur' = t
                /\ UNCHANGED << task_pc, task_agent, task_result >>
           ELSE /\ task_pc' = [task_pc EXCEPT ![t] = "free"]
                /\ task_agent' = [task_agent EXCEPT ![t] = None]
                /\ task_result' = [task_result EXCEPT ![t] = "none"]
                /\ UNCHANGED << run_pc, cur >>
    /\ UNCHANGED << mission_exists, agent_files, generate_agents, agent_count,
                    available_agents, spawn_i, spawn_n, tasks, pending,
                    _running_agents, _agent_lock >>
    /\ UNCHANGED << teamVars, phaseVars, aiderVars, planVars, mapVars, ctxVars, webVars,
                    editVars >>

\* lines 93-94: the 3 second sleep ends, the replacement task is created
RunReplace ==
    /\ run_pc = "sleep3"
    /\ TaskCreated(cur)
    /\ pending' = pending \cup {cur}
    /\ cur' = 0
    /\ run_pc' = "handle"
    /\ UNCHANGED << mission_exists, agent_files, generate_agents, agent_count,
                    available_agents, spawn_i, spawn_n, tasks, done,
                    _running_agents, _agent_lock >>
    /\ UNCHANGED << teamVars, phaseVars, aiderVars, planVars, mapVars, ctxVars, webVars,
                    editVars >>

\* line 97 and the loop test of line 79
RunLoopEnd ==
    /\ run_pc = "handle"
    /\ done = {}
    /\ tasks' = pending
    /\ run_pc' = IF pending = {} THEN "returned" ELSE "wait"
    /\ UNCHANGED << mission_exists, agent_files, generate_agents, agent_count,
                    available_agents, spawn_i, spawn_n, done, pending, cur,
                    task_pc, task_agent, task_result, _running_agents,
                    _agent_lock >>
    /\ UNCHANGED << teamVars, phaseVars, aiderVars, planVars, mapVars, ctxVars, webVars,
                    editVars >>

\* the steps of the run coroutine
RunStep ==
    \/ RunStart
    \/ RunGenerated
    \/ RunSpawnNext
    \/ RunWaitReturn
    \/ RunHandle
    \/ RunReplace
    \/ RunLoopEnd

runLocals ==
    << run_pc, available_agents, spawn_i, spawn_n, tasks, done, pending, cur >>

(* The cycle tasks run on one asyncio event loop: a task is only suspended  *)
(* at an await.  `async with self._agent_lock` does not suspend when the   *)
(* lock is free, and no critical section contains an await, so the lock is *)
(* free at every suspension point and each critical section is one step.   *)

\* lines 157-160 and 191-200: the task starts and selects an unused agent
TaskSelect(t) ==
    /\ task_pc[t] = "created"
    /\ _agent_lock = 0
    /\ LET unused_agents ==
             UnusedAgents(_get_available_agents(agent_files), _running_agents)
       IN IF unused_agents = {}
          THEN /\ task_pc' = [task_pc EXCEPT ![t] = "sleep1"]
               /\ UNCHANGED << task_agent, _running_agents >>
          ELSE \E a \in unused_agents :     \* random.choice
               /\ _running_agents' = _running_agents \cup {a}
               /\ task_agent' = [task_agent EXCEPT ![t] = a]
               /\ task_pc' = [task_pc EXCEPT ![t] = "executing"]
    /\ UNCHANGED << mission_exists, agent_files, generate_agents, agent_count,
                    runLocals, task_result, _agent_lock >>
    /\ UNCHANGED << teamVars, phaseVars, aiderVars, planVars, mapVars, ctxVars, webVars,
                    editVars >>

\* lines 159-160 and 182-184: no agent, the task returns after one second
TaskNoAgent(t) ==
    /\ task_pc[t] = "sleep1"
    /\ task_pc' = [task_pc EXCEPT ![t] = "done"]
    /\ task_result' = [task_result EXCEPT ![t] = "ok"]
    /\ UNCHANGED << mission_exists, agent_files, generate_agents, agent_count,
                    runLocals, task_agent, _running_agents, _agent_lock >>
    /\ UNCHANGED << teamVars, phaseVars, aiderVars, planVars, mapVars, ctxVars, webVars,
                    editVars >>

\* a cycle task that ends without a finally clause
ReleaseAgent_Never(t) ==
    /\ _agent_lock = 0
    /\ UNCHANGED _running_agents

\* lines 182-187: the finally clause releases the agent the task acquired
ReleaseAgent(t) ==
    /\ _agent_lock = 0
    /\ _running_agents' =
          IF task_agent[t] # None THEN _running_agents \ {task_agent[t]}
                                  ELSE _running_agents

\* lines 167-176, 182-187: the cycle run by the executor thread returns
TaskCycleCompleted(t) ==
    /\ task_pc[t] = "executing"
    /\ ReleaseAgent(t)
    /\ task_pc' = [task_pc EXCEPT ![t] = "done"]
    /\ task_result' = [task_result EXCEPT ![t] = "ok"]
    /\ task_agent' = [task_agent EXCEPT ![t] = None]
    /\ UNCHANGED << mission_exists, agent_files, generate_agents, agent_count,
                    runLocals, _agent_lock >>
    /\ UNCHANGED << teamVars, phaseVars, aiderVars, planVars, mapVars, ctxVars, webVars,
                    editVars >>

\* lines 178-187: the cycle raised; the error is logged and raised again
TaskCycleFailed(t) ==
    /\ task_pc[t] = "executing"
    /\ ReleaseAgent(t)
    /\ task_pc' = [task_pc EXCEPT ![t] = "done"]
    /\ task_result' = [task_result EXCEPT ![t] = "exc"]
    /\ task_agent' = [task_agent EXCEPT ![t] = None]
    /\ UNCHANGED << mission_exists, agent_files, generate_agents, agent_count,
                    runLocals, _agent_lock >>
    /\ UNCHANGED << teamVars, phaseVars, aiderVars, planVars, mapVars, ctxVars, webVars,
                    editVars >>

\* a role-prompt file is removed from the shared working directory
EnvRemoveAgentFile ==
    /\ run_pc \in {"sleep10", "wait", "handle", "sleep3"}
    /\ \E a \in agent_files : agent_files' = agent_files \ {a}
    /\ UNCHANGED << mission_exists, generate_agents, agent_count, runLocals,
                    task_pc, task_agent, task_result, _running_agents,
                    _agent_lock >>
    /\ UNCHANGED << teamVars, phaseVars, aiderVars, planVars, mapVars, ctxVars, webVars,
                    editVars >>

(***************************************************************************)
(* PhaseService (services/phase_service.py)                                *)
(***************************************************************************)

\* how many PhaseService calls one behaviour makes
MaxCalls == 3

MODEL_TOKEN_LIMIT == 128000
\* CONVERGENCE_THRESHOLD = 0.60 and EXPANSION_THRESHOLD = 0.50, in percent
CONVERGENCE_THRESHOLD_PCT == 60
EXPANSION_THRESHOLD_PCT == 50

\* int(MODEL_TOKEN_LIMIT * CONVERGENCE_THRESHOLD): the product is truncated
CONVERGENCE_TOKENS == (MODEL_TOKEN_LIMIT * CONVERGENCE_THRESHOLD_PCT) \div 100
\* int(MODEL_TOKEN_LIMIT * EXPANSION_THRESHOLD)
EXPANSION_TOKENS == (MODEL_TOKEN_LIMIT * EXPANSION_THRESHOLD_PCT) \div 100

\* the token totals the calls are made with: the thresholds and their
\* neighbours, a value inside the band and the two extremes
TokenSamples ==
    { 0, EXPANSION_TOKENS - 1, EXPANSION_TOKENS, EXPANSION_TOKENS + 1,
      CONVERGENCE_TOKENS - 1, CONVERGENCE_TOKENS, CONVERGENCE_TOKENS + 1,
      MODEL_TOKEN_LIMIT }

\* how many threads call determine_phase on the one PhaseService
MaxCallers == 2
Callers == 1..MaxCallers

\* PhaseService.__init__
InitPhase ==
    /\ current_phase = "EXPANSION"
    /\ last_transition = 0
    /\ total_tokens = 0
    /\ now = 0
    /\ calls = << >>
    /\ dp_pc = [c \in Callers |-> "idle"]
    /\ dp_arg = [c \in Callers |-> 0]
    /\ dp_old = [c \in Callers |-> None]
    /\ dp_new = [c \in Callers |-> None]

NewPhase_Inclusive(phase, t) ==
    IF t >= CONVERGENCE_TOKENS THEN "CONVERGENCE"
    ELSE IF t <= EXPANSION_TOKENS THEN "EXPANSION"
    ELSE phase

\* lines 47-55: the phase the thresholds ask for
NewPhase(phase, t) ==
    IF t > CONVERGENCE_TOKENS THEN "CONVERGENCE"
    ELSE IF t < EXPANSION_TOKENS THEN "EXPANSION"
    ELSE phase

StoredPhase_Stale(old_phase, new_phase) == old_phase

\* lines 58-59: the phase is stored when it differs from the old one
StoredPhase(old_phase, new_phase) ==
    IF new_phase # old_phase THEN new_phase ELSE old_phase

\* determine_phase(t)
DeterminePhase(t) ==
    /\ Len(calls) < MaxCalls
    /\ now' = now + 1
    /\ total_tokens' = t
    /\ LET old_phase == current_phase
           new_phase == NewPhase(current_phase, t)
       IN /\ current_phase' = StoredPhase(old_phase, new_phase)
          /\ last_transition' =
                IF new_phase # old_phase THEN now' ELSE last_transition
          /\ calls' = Append(calls, [op |-> "determine_phase", arg |-> t,
                                      ret |-> new_phase])
    /\ UNCHANGED << dp_pc, dp_arg, dp_old, dp_new >>
    /\ UNCHANGED << runnerVars, teamVars, aiderVars, planVars, mapVars, ctxVars, webVars,
                    editVars >>

\* the phase names force_phase is called with
ForceNames == {"expansion", "EXPANSION", "Convergence", "converge", "phase"}

\* phase.upper() on those names
upper(name) ==
    CASE name = "expansion" -> "EXPANSION"
      [] name = "Convergence" -> "CONVERGENCE"
      [] name = "converge" -> "CONVERGE"
      [] name = "phase" -> "PHASE"
      [] OTHER -> name

ProjectPhase_Default(value) ==
    IF value \in {"EXPANSION", "CONVERGENCE"} THEN value ELSE "EXPANSION"

\* lines 13-15 and 105: the enum member of that value, or ValueError
ProjectPhase(value) ==
    IF value \in {"EXPANSION", "CONVERGENCE"} THEN value ELSE "ValueError"

\* force_phase(name), lines 102-113
ForcePhase(name) ==
    /\ Len(calls) < MaxCalls
    /\ now' = now + 1
    /\ LET new_phase == ProjectPhase(upper(name))
       IN IF new_phase = "ValueError"
          THEN /\ calls' = Append(calls, [op |-> "force_phase", arg |-> name,
                                           ret |-> "False"])
               /\ UNCHANGED << current_phase, last_transition >>
          ELSE /\ current_phase' = new_phase
               /\ last_transition' =
                     IF new_phase # current_phase THEN now'
                                                  ELSE last_transition
               /\ calls' = Append(calls, [op |-> "force_phase", arg |-> name,
                                           ret |-> "True"])
    /\ UNCHANGED << total_tokens, dp_pc, dp_arg, dp_old, dp_new >>
    /\ UNCHANGED << runnerVars, teamVars, aiderVars, planVars, mapVars,
                    ctxVars, webVars, editVars >>

\* get_status_info(), lines 71-100: the fields are read, a dict is returned
GetStatusInfo ==
    /\ Len(calls) < MaxCalls
    /\ now' = now + 1
    /\ calls' = Append(calls,
          [op |-> "get_status_info", arg |-> 0,
           ret |-> [phase |-> current_phase,
                    total_tokens |-> total_tokens,
                    headroom |-> IF current_phase = "EXPANSION"
                                 THEN CONVERGENCE_TOKENS - total_tokens
                                 ELSE EXPANSION_TOKENS - total_tokens,
                    last_transition |-> last_transition]])
    /\ UNCHANGED << current_phase, last_transition, total_tokens,
                    dp_pc, dp_arg, dp_old, dp_new >>
    /\ UNCHANGED << runnerVars, teamVars, aiderVars, planVars, mapVars,
                    ctxVars, webVars, editVars >>

\* ---- determine_phase statement by statement, as threads that share the
\* PhaseService execute it: the method takes no lock

\* line 40: self.total_tokens = total_tokens
DpStoreTotal(c, t) ==
    /\ dp_pc[c] = "idle"
    /\ total_tokens' = t
    /\ dp_arg' = [dp_arg EXCEPT ![c] = t]
    /\ dp_pc' = [dp_pc EXCEPT ![c] = "l41"]
    /\ UNCHANGED << current_phase, last_transition, now, calls, dp_old, dp_new >>
    /\ UNCHANGED << runnerVars, teamVars, aiderVars, planVars, mapVars, ctxVars, webVars,
                    editVars >>

\* line 41: old_phase = self.current_phase
DpReadOld(c) ==
    /\ dp_pc[c] = "l41"
    /\ dp_old' = [dp_old EXCEPT ![c] = current_phase]
    /\ dp_pc' = [dp_pc EXCEPT ![c] = "l47"]
    /\ UNCHANGED << current_phase, last_transition, total_tokens, now, calls,
                    dp_arg, dp_new >>
    /\ UNCHANGED << runnerVars, teamVars, aiderVars, planVars, mapVars, ctxVars, webVars,
                    editVars >>

\* lines 47-55: new_phase; line 54 reads self.current_phase again
DpCompute(c) ==
    /\ dp_pc[c] = "l47"
    /\ dp_new' = [dp_new EXCEPT ![c] = NewPhase(current_phase, dp_arg[c])]
    /\ dp_pc' = [dp_pc EXCEPT ![c] = "l58"]
    /\ UNCHANGED << current_phase, last_transition, total_tokens, now, calls,
                    dp_arg, dp_old >>
    /\ UNCHANGED << runnerVars, teamVars, aiderVars, planVars, mapVars, ctxVars, webVars,
                    editVars >>

\* lines 58-59: if new_phase != old_phase: self.current_phase = new_phase
DpStorePhase(c) ==
    /\ dp_pc[c] = "l58"
    /\ current_phase' = IF dp_new[c] # dp_old[c] THEN dp_new[c]
                                                ELSE current_phase
    /\ dp_pc' = [dp_pc EXCEPT ![c] =
                    IF dp_new[c] # dp_old[c] THEN "l60" ELSE "l69"]
    /\ UNCHANGED << last_transition, total_tokens, now, calls, dp_arg, dp_old,
                    dp_new >>
    /\ UNCHANGED << runnerVars, teamVars, aiderVars, planVars, mapVars, ctxVars, webVars,
                    editVars >>

\* line 60: self.last_transition = datetime.now()
DpStoreTransition(c) ==
    /\ dp_pc[c] = "l60"
    /\ now' = now + 1
    /\ last_transition' = now'
    /\ dp_pc' = [dp_pc EXCEPT ![c] = "l69"]
    /\ UNCHANGED << current_phase, total_tokens, calls, dp_arg, dp_old, dp_new >>
    /\ UNCHANGED << runnerVars, teamVars, aiderVars, planVars, mapVars, ctxVars, webVars,
                    editVars >>

\* line 69: return new_phase, message
DpReturn(c) ==
    /\ dp_pc[c] = "l69"
    /\ calls' = Append(calls, [op |-> "determine_phase", arg |-> dp_arg[c],
                                ret |-> dp_new[c]])
    /\ dp_pc' = [dp_pc EXCEPT ![c] = "returned"]
    /\ UNCHANGED << current_phase, last_transition, total_tokens, now, dp_arg,
                    dp_old, dp_new >>
    /\ UNCHANGED << runnerVars, teamVars, aiderVars, planVars, mapVars, ctxVars, webVars,
                    editVars >>

(***************************************************************************)
(* run_team_loop and its AgentRunner threads (kinos_cli.py)                *)
(***************************************************************************)

\* line 226: while len(active_threads) < 3
TeamSize == 3
\* lines 56 and 240: phase_weights.get(agent, 0.5), in tenths
DefaultWeightTenths == 5
\* the weights a phase configures, in tenths.  A draw only distinguishes a
\* zero weight from a positive one, and the fallback is positive.
ConfiguredWeights == {0}
\* marks an agent the weights dict has no key for
NoWeight == -1

RunnerIds == 1..TeamSize

\* phase_weights.get(agent, 0.5)
WeightOf(pw, a) == IF pw[a] = NoWeight THEN DefaultWeightTenths ELSE pw[a]

RECURSIVE SumWeights(_, _)
SumWeights(pw, S) ==
    IF S = {} THEN 0
    ELSE LET a == CHOOSE x \in S : TRUE
         IN WeightOf(pw, a) + SumWeights(pw, S \ {a})

\* random.choices(population, weights=weights, k=1)[0] with a positive total:
\* every element of positive weight can be drawn, no other
RandomChoices(population, pw) ==
    { a \in population : WeightOf(pw, a) > 0 }

InitTeam ==
    /\ team_agents \in { { AgentTypes[i] : i \in 1..k } :
                           k \in 1..Cardinality(Agents) }
    /\ phase_weights \in [team_agents -> ConfiguredWeights \cup {NoWeight}]
    /\ main_pc = "loop"
    /\ active_threads = {}
    /\ thr_pc = [r \in RunnerIds |-> "unstarted"]
    /\ thr_agent = [r \in RunnerIds |-> None]
    /\ thr_running = [r \in RunnerIds |-> FALSE]

\* the runner that was started and is not yet in active_threads
StartedRunner ==
    CHOOSE r \in RunnerIds : thr_pc[r] # "unstarted" /\ r \notin active_threads

\* lines 226-248: run_team_loop draws an agent, then starts one more runner
MainStartRunner ==
    /\ main_pc = "loop"
    /\ Cardinality(active_threads) < TeamSize
    /\ IF SumWeights(phase_weights, team_agents) = 0
       THEN \* random.choices raises ValueError, which run_team_loop lets go
            /\ main_pc' = "raised"
            /\ UNCHANGED << active_threads, thr_pc, thr_running >>
       ELSE LET r == CHOOSE x \in RunnerIds \ active_threads :
                        \A y \in RunnerIds \ active_threads : x <= y
            IN \* lines 247-248: the runner is created and started
               /\ thr_pc' = [thr_pc EXCEPT ![r] = "test"]
               /\ thr_running' = [thr_running EXCEPT ![r] = TRUE]
               /\ main_pc' = "register"
               /\ UNCHANGED active_threads
    /\ UNCHANGED << team_agents, phase_weights, thr_agent >>
    /\ UNCHANGED << runnerVars, phaseVars, aiderVars, planVars, mapVars, ctxVars, webVars,
                    editVars >>

\* line 249: the started runner is entered in active_threads
MainRegisterRunner ==
    /\ main_pc = "register"
    /\ active_threads' = active_threads \cup { StartedRunner }
    /\ main_pc' = "loop"
    /\ UNCHANGED << team_agents, phase_weights, thr_pc, thr_agent,
                    thr_running >>
    /\ UNCHANGED << runnerVars, phaseVars, aiderVars, planVars, mapVars, ctxVars, webVars,
                    editVars >>

\* lines 260-269: KeyboardInterrupt, raised in the main thread wherever it
\* is in the loop; every runner in active_threads is told to stop
MainInterrupt ==
    /\ main_pc \in {"loop", "register"}
    /\ main_pc' = "stopped"
    /\ thr_running' = [r \in RunnerIds |->
                          IF r \in active_threads THEN FALSE
                                                  ELSE thr_running[r]]
    /\ UNCHANGED << team_agents, phase_weights, active_threads, thr_pc,
                    thr_agent >>
    /\ UNCHANGED << runnerVars, phaseVars, aiderVars, planVars, mapVars, ctxVars, webVars,
                    editVars >>

\* line 46: the loop test of the runner thread
ThreadLoopTest(r) ==
    /\ thr_pc[r] = "test"
    /\ thr_pc' = [thr_pc EXCEPT ![r] =
                     IF thr_running[r] THEN "select" ELSE "exited"]
    /\ UNCHANGED << team_agents, phase_weights, main_pc, active_threads,
                    thr_agent, thr_running >>
    /\ UNCHANGED << runnerVars, phaseVars, aiderVars, planVars, mapVars, ctxVars, webVars,
                    editVars >>

\* lines 47-85: the draw of the next agent, agent.run() starts
ThreadSelect(r) ==
    /\ thr_pc[r] = "select"
    /\ IF SumWeights(phase_weights, team_agents) = 0
       THEN \* ValueError, caught by the handler of line 101
            /\ thr_pc' = [thr_pc EXCEPT ![r] = "sleep5"]
            /\ UNCHANGED thr_agent
       ELSE \E a \in RandomChoices(team_agents, phase_weights) :
            /\ thr_agent' = [thr_agent EXCEPT ![r] = a]
            /\ thr_pc' = [thr_pc EXCEPT ![r] = "agent_run"]
    /\ UNCHANGED << team_agents, phase_weights, main_pc, active_threads,
                    thr_running >>
    /\ UNCHANGED << runnerVars, phaseVars, aiderVars, planVars, mapVars, ctxVars, webVars,
                    editVars >>

\* lines 85-99: agent.run() returned or raised; the runner loops
ThreadAgentReturn(r) ==
    /\ thr_pc[r] = "agent_run"
    /\ thr_pc' = [thr_pc EXCEPT ![r] = "test"]
    /\ UNCHANGED << team_agents, phase_weights, main_pc, active_threads,
                    thr_agent, thr_running >>
    /\ UNCHANGED << runnerVars, phaseVars, aiderVars, planVars, mapVars, ctxVars, webVars,
                    editVars >>

\* line 117: the pause after an error ends
ThreadErrorPause(r) ==
    /\ thr_pc[r] = "sleep5"
    /\ thr_pc' = [thr_pc EXCEPT ![r] = "test"]
    /\ UNCHANGED << team_agents, phase_weights, main_pc, active_threads,
                    thr_agent, thr_running >>
    /\ UNCHANGED << runnerVars, phaseVars, aiderVars, planVars, mapVars, ctxVars, webVars,
                    editVars >>

\* lines 52-55: every draw reads the current phase and its weights afresh;
\* between two draws the project may have entered the other phase
TeamPhaseChange ==
    /\ main_pc = "loop"
    /\ \E pw \in [team_agents -> ConfiguredWeights \cup {NoWeight}] :
         /\ pw # phase_weights
         /\ phase_weights' = pw
    /\ UNCHANGED << team_agents, main_pc, active_threads, thr_pc, thr_agent,
                    thr_running >>
    /\ UNCHANGED << runnerVars, phaseVars, aiderVars, planVars, mapVars, ctxVars, webVars,
                    editVars >>

(***************************************************************************)
(* One editor cycle (managers/aider_manager.py)                            *)
(***************************************************************************)

\* the hashes a tracked file can have are 1..MaxHash
MaxHash == 2

\* the paths version control may track
Paths == {"a.md", "b.md"}

\* _get_git_file_states: path -> hash; 0 stands for a path the dict lacks
GitStates == [Paths -> 0..MaxHash]

\* lines 643-659: the three phases, in the order _execute_aider runs them
PhaseSequence_Swapped == << "Role-specific", "Production", "Final Check" >>

PhaseSequence == << "Production", "Role-specific", "Final Check" >>

\* _get_modified_files: the loop visits the paths of after_state
_get_modified_files(before_state, after_state) ==
    { p \in Paths : after_state[p] # 0 /\ before_state[p] # after_state[p] }

RECURSIVE UnionAll(_)
UnionAll(seq) ==
    IF seq = << >> THEN {} ELSE Head(seq) \cup UnionAll(Tail(seq))

\* the level of the logger call that reports a step and its outcome: lines
\* 471 (launch), 491 (editor exit code), 463 and 465 (visualization), 516 and
\* 518 (commit info), 529 and 541 (push)
LogLevel(ev, ok) ==
    CASE ev = "launch" -> "info"
      [] ev = "return" -> IF ok THEN "none" ELSE "error"
      [] ev = "visualize" -> IF ok THEN "success" ELSE "error"
      [] ev = "commit_log" -> IF ok THEN "success" ELSE "warning"
      [] ev = "push" -> "info"
      [] OTHER -> "none"

Event(ev, ok) ==
    [ev |-> ev, phase |-> PhaseSequence[phase_idx], ok |-> ok,
     level |-> LogLevel(ev, ok)]

\* lines 646, 652 and 658: the instruction of each phase
PhasePrompts ==
    << "--> Focus on the Production Objective",
       "--> Focus on the Role-specific Objective",
       "--> Any additional changes required? Then update the todolist to reflect the changes." >>

\* the last element of a command with the line phase_prompt added to it
WithInstruction(base, phase_prompt) ==
    [base EXCEPT ![Len(base)].val = @ \o << phase_prompt >>]

\* phase_cmd = cmd; phase_cmd[-1] = ...: both names denote one list
PhaseCommand_Aliased(base, phase_prompt) ==
    [cmd |-> WithInstruction(base, phase_prompt),
     phase_cmd |-> WithInstruction(base, phase_prompt)]

\* lines 475-476: phase_cmd = cmd.copy(), then the last element of the copy
\* is replaced; the list of the caller keeps its elements
PhaseCommand(base, phase_prompt) ==
    [cmd |-> base, phase_cmd |-> WithInstruction(base, phase_prompt)]

PushOutcome_Raises(push_ok) == IF push_ok THEN "continue" ELSE "raised"

\* lines 521-541: CalledProcessError of git push is caught, the phase goes on
PushOutcome(push_ok) == "continue"

\* lines 628-641: git config, which raises when git fails
AiderConfigure ==
    /\ aider_pc = "start"
    /\ \E ok \in BOOLEAN :
         aider_pc' = IF ok THEN "phase_begin" ELSE "raised"
    /\ UNCHANGED << git_state, phase_idx, initial_state, final_state,
                    modified_files, phase_files, all_changes, events,
                    cmd, phase_cmds >>
    /\ UNCHANGED << runnerVars, teamVars, phaseVars, planVars, mapVars, ctxVars, webVars,
                    editVars >>

\* lines 471-489: the command of the phase is prepared, the snapshot before
\* the phase is taken, then the editor is launched with the command
AiderPhaseBegin ==
    /\ aider_pc = "phase_begin"
    /\ LET prepared == PhaseCommand(cmd, PhasePrompts[phase_idx])
       IN /\ cmd' = prepared.cmd
          /\ \E ok \in BOOLEAN :
               IF ok
               THEN /\ initial_state' = git_state
                    /\ events' = Append(events, Event("launch", TRUE))
                    /\ phase_cmds' = Append(phase_cmds, prepared.phase_cmd)
                    /\ aider_pc' = "editor"
               ELSE \* _get_git_file_states raises
                    /\ aider_pc' = "raised"
                    /\ UNCHANGED << initial_state, events, phase_cmds >>
    /\ UNCHANGED << git_state, phase_idx, final_state, modified_files,
                    phase_files, all_changes >>
    /\ UNCHANGED << runnerVars, teamVars, phaseVars, planVars, mapVars, ctxVars, webVars,
                    editVars >>

\* lines 490-494: the editor ends; it may have committed anything
AiderEditorExit ==
    /\ aider_pc = "editor"
    /\ \E g \in GitStates, returncode \in {0, 1} :
         /\ git_state' = g
         /\ events' = Append(events, Event("return", returncode = 0))
         /\ aider_pc' = IF returncode # 0 THEN "raised" ELSE "post"
    /\ UNCHANGED << phase_idx, initial_state, final_state, modified_files,
                    phase_files, all_changes, cmd, phase_cmds >>
    /\ UNCHANGED << runnerVars, teamVars, phaseVars, planVars, mapVars, ctxVars, webVars,
                    editVars >>

\* lines 453-467, 500-533: what a phase that modified files does next
PostPhaseEvents(push_ok) ==
    << Event("visualize", TRUE), Event("commit_log", TRUE),
       Event("push", push_ok) >>

\* lines 496-538 and, after the third phase, 661-672
AiderPostPhase ==
    /\ aider_pc = "post"
    /\ \E snapshot_ok \in BOOLEAN, push_ok \in BOOLEAN :
         IF ~snapshot_ok
         THEN /\ aider_pc' = "raised"
              /\ UNCHANGED << phase_idx, final_state, modified_files,
                              phase_files, all_changes, events >>
         ELSE LET files == _get_modified_files(initial_state, git_state)
              IN /\ final_state' = git_state
                 /\ events' = IF files # {}
                              THEN events \o PostPhaseEvents(push_ok)
                              ELSE events
                 /\ IF files # {} /\ PushOutcome(push_ok) = "raised"
                    THEN \* the exception leaves _run_aider_phase at line 540
                         /\ aider_pc' = "raised"
                         /\ UNCHANGED << phase_idx, modified_files,
                                         phase_files, all_changes >>
                    ELSE /\ modified_files' = files
                         /\ phase_files' = Append(phase_files, files)
                         /\ IF phase_idx < Len(PhaseSequence)
                            THEN /\ phase_idx' = phase_idx + 1
                                 /\ aider_pc' = "phase_begin"
                                 /\ UNCHANGED all_changes
                            ELSE /\ aider_pc' = "finished"
                                 /\ all_changes' = UnionAll(phase_files')
                                 /\ UNCHANGED phase_idx
    /\ UNCHANGED << git_state, initial_state, cmd, phase_cmds >>
    /\ UNCHANGED << runnerVars, teamVars, phaseVars, planVars, mapVars, ctxVars, webVars,
                    editVars >>

(***************************************************************************)
(* The specifications                                                      *)
(***************************************************************************)

(***************************************************************************)
(* One agent cycle in the executor (agent_runner.py _execute_agent_cycle,  *)
(* objective_manager.py)                                                   *)
(***************************************************************************)

\* distinct objective texts the language model may return
MaxObj == 2
\* cycles started for one agent
MaxRuns == 2

\* the agents whose cycles are followed; the pool never runs one agent twice
Planners == { AgentTypes[1], AgentTypes[2] }

\* agent_runner.py line 222 / 223 / 232: the per-agent artifacts
AgentFilePath(agent_name) == [kind |-> "agent", agent |-> agent_name]
SharedObjectivePath(agent_name) == [kind |-> "objective", agent |-> AgentTypes[1]]
ObjectiveFilePath(agent_name) == [kind |-> "objective", agent |-> agent_name]

\* objective_manager.py _extract_agent_name: the name between the prefix
\* .aider.agent. and the suffix .md
_extract_agent_name(agent_filepath) == agent_filepath.agent

\* objective_manager.py _validate_file over [mission_filepath, agent_filepath]
_validate_files(mission_ok, files, agent_filepath) ==
    mission_ok /\ agent_filepath.agent \in files

\* what _execute_agent_cycle does when generate_objective raises
ObjectiveFailure_Swallowed == "map"
\* line 226: the call is not in a try block, the exception leaves the cycle
ObjectiveFailure == "failed"

CycleEvent(a, ev) == cyc_events' = [cyc_events EXCEPT ![a] = Append(@, ev)]

InitPlan ==
    /\ objective_file = [a \in Planners |-> 0]
    /\ map_file = [a \in Planners |-> 0]
    /\ cyc_pc = [a \in Planners |-> "idle"]
    /\ cyc_content = [a \in Planners |-> 0]
    /\ cyc_runs = [a \in Planners |-> 0]
    /\ cyc_events = [a \in Planners |-> << >>]

\* lines 220-229 and generate_objective lines 28-33: the cycle starts and the
\* planner validates the mission and the role prompt
CycleStart(a) ==
    /\ cyc_pc[a] \in {"idle", "completed", "failed"}
    /\ cyc_runs[a] < MaxRuns
    /\ cyc_runs' = [cyc_runs EXCEPT ![a] = @ + 1]
    /\ cyc_content' = [cyc_content EXCEPT ![a] = 0]
    /\ IF _validate_files(mission_exists, agent_files, AgentFilePath(a))
       THEN /\ cyc_pc' = [cyc_pc EXCEPT ![a] = "llm"]
            /\ cyc_events' = [cyc_events EXCEPT ![a] = << "validated" >>]
       ELSE \* ValueError("Invalid or missing input files"), re-raised
            /\ cyc_pc' = [cyc_pc EXCEPT ![a] = ObjectiveFailure]
            /\ cyc_events' =
                  [cyc_events EXCEPT ![a] = << "objective_failed" >>]
    /\ UNCHANGED << objective_file, map_file >>
    /\ UNCHANGED << runnerVars, teamVars, phaseVars, aiderVars, mapVars, ctxVars, webVars,
                    editVars >>

\* generate_objective lines 36-47: the files are read and the language model
\* is called; it returns a text or raises (lines 113-115: no fallback)
CycleObjectiveContent(a) ==
    /\ cyc_pc[a] = "llm"
    /\ \E c \in 0..MaxObj :
          IF c = 0
          THEN /\ cyc_pc' = [cyc_pc EXCEPT ![a] = ObjectiveFailure]
               /\ CycleEvent(a, "objective_failed")
               /\ UNCHANGED cyc_content
          ELSE /\ cyc_pc' = [cyc_pc EXCEPT ![a] = "save"]
               /\ CycleEvent(a, "objective_content")
               /\ cyc_content' = [cyc_content EXCEPT ![a] = c]
    /\ UNCHANGED << objective_file, map_file, cyc_runs >>
    /\ UNCHANGED << runnerVars, teamVars, phaseVars, aiderVars, mapVars, ctxVars, webVars,
                    editVars >>

\* generate_objective lines 50-51 and _save_objective: the objective of the
\* agent named by the role-prompt path is overwritten
CycleSaveObjective(a) ==
    /\ cyc_pc[a] = "save"
    /\ LET output_path ==
              ObjectiveFilePath(_extract_agent_name(AgentFilePath(a)))
       IN objective_file' =
              [objective_file EXCEPT ![output_path.agent] = cyc_content[a]]
    /\ cyc_pc' = [cyc_pc EXCEPT ![a] = "map"]
    /\ CycleEvent(a, "objective_saved")
    /\ UNCHANGED << map_file, cyc_content, cyc_runs >>
    /\ UNCHANGED << runnerVars, teamVars, phaseVars, aiderVars, mapVars, ctxVars, webVars,
                    editVars >>

\* line 234: the context map of the agent is generated, or the call raises
CycleGenerateMap(a) ==
    /\ cyc_pc[a] = "map"
    /\ \E ok \in BOOLEAN :
          IF ok
          THEN /\ map_file' = [map_file EXCEPT ![a] = 1]
               /\ cyc_pc' = [cyc_pc EXCEPT ![a] = "aider"]
               /\ CycleEvent(a, "map_generated")
          ELSE /\ cyc_pc' = [cyc_pc EXCEPT ![a] = "failed"]
               /\ CycleEvent(a, "map_failed")
               /\ UNCHANGED map_file
    /\ UNCHANGED << objective_file, cyc_content, cyc_runs >>
    /\ UNCHANGED << runnerVars, teamVars, phaseVars, aiderVars, mapVars, ctxVars, webVars,
                    editVars >>

\* lines 241-247: run_aider is a coroutine function called without await:
\* the call only builds a coroutine object, its body (and the editor
\* subprocess) does not run, and the cycle is logged as completed
CycleRunAider(a) ==
    /\ cyc_pc[a] = "aider"
    /\ cyc_pc' = [cyc_pc EXCEPT ![a] = "completed"]
    /\ CycleEvent(a, "run_aider_called")
    /\ UNCHANGED << objective_file, map_file, cyc_content, cyc_runs >>
    /\ UNCHANGED << runnerVars, teamVars, phaseVars, aiderVars, mapVars, ctxVars, webVars,
                    editVars >>

\* no cycle in the executor
IdlePlan ==
    /\ objective_file = [a \in Planners |-> 0]
    /\ map_file = [a \in Planners |-> 0]
    /\ cyc_pc = [a \in Planners |-> "none"]
    /\ cyc_content = [a \in Planners |-> 0]
    /\ cyc_runs = [a \in Planners |-> 0]
    /\ cyc_events = [a \in Planners |-> << >>]

(***************************************************************************)
(* MapService (services/map_service.py)                                    *)
(***************************************************************************)

\* generate_map calls followed
MaxGen == 2

\* the tree under os.getcwd(): sorted os.listdir of each directory; the
\* mission directory is a repository the editor has worked in
Dirs == { "root", ".git", "docs" }
Listing ==
    "root" :> << ".aider.objective.production.md", ".git", "app.log",
                 "docs", "readme.md" >>
    @@ ".git" :> << "HEAD" >>
    @@ "docs" :> << "guide.md" >>

\* line 57: os.path.isdir(full_path)
isdir(item) == item \in Dirs

\* line 67: item.endswith('.md')
endswith_md(item) ==
    item \in { ".aider.objective.production.md", "readme.md", "guide.md" }

\* _scan_directory lines 43-88: the lines of the tree below path, from item
\* i on: one line per directory, followed by its own tree, and one line per
\* markdown file; a directory whose listing raises contributes no line
\* (line 88)
RECURSIVE _scan_directory(_, _, _)
_scan_directory(path, bad, i) ==
    IF path \in bad THEN << >>
    ELSE IF i > Len(Listing[path]) THEN << >>
    ELSE LET item == Listing[path][i]
         IN (IF isdir(item) THEN << item >> \o _scan_directory(item, bad, 1)
             ELSE IF endswith_md(item) THEN << item >>
             ELSE << >>)
            \o _scan_directory(path, bad, i + 1)

\* _format_map_content lines 156-198: the header with its timestamp, then the
\* tree
_format_map_content(stamp, tree) == << stamp >> \o tree

\* map.md has not been read yet
Unread == << -1 >>

CompleteMap(stamp) == _format_map_content(stamp, _scan_directory("root", {}, 1))

InitMap ==
    /\ map_md = CompleteMap(0)
    /\ gen_pc = "idle"
    /\ unreadable = {}
    /\ tree_content = << >>
    /\ map_content = << >>
    /\ written = 0
    /\ gen_result = None
    /\ generated = 0
    /\ map_seen = Unread
    /\ map_versions = { CompleteMap(0) }

\* generate_map line 33: the tree is scanned; _scan_directory catches every
\* exception itself, so the scan always returns
MapScan ==
    /\ gen_pc \in {"idle", "returned"}
    /\ generated < MaxGen
    /\ generated' = generated + 1
    /\ \E bad \in SUBSET Dirs :
          /\ unreadable' = bad
          /\ tree_content' = _scan_directory("root", bad, 1)
          /\ gen_pc' = "scanned"
    /\ map_content' = << >>
    /\ written' = 0
    /\ gen_result' = None
    /\ UNCHANGED << map_md, map_seen, map_versions >>
    /\ UNCHANGED << runnerVars, teamVars, phaseVars, aiderVars, planVars, ctxVars, webVars,
                    editVars >>

\* generate_map line 35: the content is formatted, or get_status_info raises
\* and lines 39-41 return False
MapFormat ==
    /\ gen_pc = "scanned"
    /\ \E ok \in BOOLEAN :
          IF ok
          THEN /\ map_content' = _format_map_content(generated, tree_content)
               /\ gen_pc' = "formatted"
               /\ UNCHANGED gen_result
          ELSE /\ gen_pc' = "returned"
               /\ gen_result' = "False"
               /\ UNCHANGED map_content
    /\ UNCHANGED << map_md, unreadable, tree_content, written, generated,
                    map_seen, map_versions >>
    /\ UNCHANGED << runnerVars, teamVars, phaseVars, aiderVars, planVars, ctxVars, webVars,
                    editVars >>

\* _write_map_file line 203: open(map_file, 'w') truncates map.md, or raises
\* and line 208 returns False
MapOpen ==
    /\ gen_pc = "formatted"
    /\ \E ok \in BOOLEAN :
          IF ok
          THEN /\ map_md' = << >>
               /\ gen_pc' = "writing"
               /\ UNCHANGED gen_result
          ELSE /\ gen_pc' = "returned"
               /\ gen_result' = "False"
               /\ UNCHANGED map_md
    /\ UNCHANGED << unreadable, tree_content, map_content, written, generated,
                    map_seen, map_versions >>
    /\ UNCHANGED << runnerVars, teamVars, phaseVars, aiderVars, planVars, ctxVars, webVars,
                    editVars >>

\* _write_map_file line 204: the content reaches the disk piece by piece
MapWrite ==
    /\ gen_pc = "writing"
    /\ written < Len(map_content)
    /\ \E ok \in BOOLEAN :
          IF ok
          THEN /\ written' = written + 1
               /\ map_md' = Append(map_md, map_content[written + 1])
               /\ UNCHANGED << gen_pc, gen_result >>
          ELSE \* the write raises (line 206): False, the file stays as it is
               /\ gen_pc' = "returned"
               /\ gen_result' = "False"
               /\ UNCHANGED << written, map_md >>
    /\ UNCHANGED << unreadable, tree_content, map_content, generated,
                    map_seen, map_versions >>
    /\ UNCHANGED << runnerVars, teamVars, phaseVars, aiderVars, planVars, ctxVars, webVars,
                    editVars >>

\* _write_map_file line 205: the file is closed and True is returned
MapClose ==
    /\ gen_pc = "writing"
    /\ written = Len(map_content)
    /\ gen_pc' = "returned"
    /\ gen_result' = "True"
    /\ map_versions' = map_versions \cup { map_md }
    /\ UNCHANGED << map_md, unreadable, tree_content, map_content, written,
                    generated, map_seen >>
    /\ UNCHANGED << runnerVars, teamVars, phaseVars, aiderVars, planVars, ctxVars, webVars,
                    editVars >>

\* get_map_content lines 214-223, called by a concurrent cycle
MapRead ==
    /\ gen_pc # "none"
    /\ map_seen' = map_md
    /\ UNCHANGED << map_md, gen_pc, unreadable, tree_content, map_content,
                    written, gen_result, generated, map_versions >>
    /\ UNCHANGED << runnerVars, teamVars, phaseVars, aiderVars, planVars, ctxVars, webVars,
                    editVars >>

\* no generate_map call
IdleMap ==
    /\ map_md = << >>
    /\ gen_pc = "none"
    /\ unreadable = {}
    /\ tree_content = << >>
    /\ map_content = << >>
    /\ written = 0
    /\ gen_result = None
    /\ generated = 0
    /\ map_seen = Unread
    /\ map_versions = {}

(***************************************************************************)
(* The context map and the editor command (managers/aider_manager.py)      *)
(***************************************************************************)

\* paths a context map may list: one at the mission root, one in a
\* subdirectory; dir is os.path.dirname of the path
RootPath == [dir |-> "", name |-> "notes.md"]
SubPath == [dir |-> "docs", name |-> "plan.md"]
CtxPaths == { RootPath, SubPath }

\* line 314: the task list is always given to the editor
TodoList == [dir |-> "", name |-> "todolist.md"]

Listings ==
    { << >>, << RootPath >>, << SubPath >>, << RootPath, SubPath >>,
      << SubPath, RootPath >> }

\* os.makedirs(name, exist_ok=True): raises FileNotFoundError for the empty
\* name, which is the dirname of a path at the mission root
MakedirsRaises(name) == name = ""

\* _load_context_map lines 253-271 from line i of the map on: the files and
\* directories on disk afterwards, the list built so far, and whether the
\* call raised
RECURSIVE _load_context_map(_, _, _, _, _)
_load_context_map(lines, i, d, ds, acc) ==
    IF i > Len(lines)
    THEN [disk |-> d, dirs |-> ds, context_files |-> acc, raised |-> FALSE]
    ELSE LET filepath == lines[i]
         IN IF filepath \in d
            THEN _load_context_map(lines, i + 1, d, ds, Append(acc, filepath))
            ELSE IF MakedirsRaises(filepath.dir)
            THEN [disk |-> d, dirs |-> ds, context_files |-> << >>,
                  raised |-> TRUE]
            ELSE _load_context_map(lines, i + 1, d \cup {filepath},
                                   ds \cup {filepath.dir},
                                   Append(acc, filepath))

\* _build_aider_command lines 310-314: one --file per context file, then the
\* task list
_build_aider_command(files) ==
    { files[k] : k \in DOMAIN files } \cup { TodoList }

\* objective_manager.py line 122: the history the planner reads
ChatFile(agent_name) == [kind |-> "chat", agent |-> agent_name]
\* aider_manager.py line 304 and 306: the histories the editor is given
ChatHistoryFile(agent_name) == [kind |-> "history", agent |-> agent_name]
InputHistoryFile(agent_name) == [kind |-> "input", agent |-> agent_name]

HistoryFiles ==
    UNION { { ChatFile(a), ChatHistoryFile(a), InputHistoryFile(a) } :
            a \in Planners }

\* the texts the language model may write into an objective file
Objectives == { "draft the report", "review the report" }

\* line 290: the directory of the bundled editor
aider_path == "vendor/aider"

\* the search paths the process may be started with; NoPath: the variable
\* is not set
NoPath == << >>
StartPaths == { NoPath, << "site" >> }

\* os.environ.get("PYTHONPATH", ""): the empty string is one empty entry
EnvironGet(env) == IF env = NoPath THEN << "" >> ELSE env

\* line 294: aider_path + os.pathsep + os.environ.get("PYTHONPATH", "")
PythonPath(env) == << aider_path >> \o EnvironGet(env)

Option(opt, val) == [opt |-> opt, val |-> val]

\* _build_aider_command lines 286-327: the list returned, one element per
\* option with its value; the last element is the --message
AiderCommand(agent_filepath, files, objective_content) ==
    LET agent_name == _extract_agent_name(agent_filepath)
    IN << Option("python", << "-m", "aider.main" >>),
          Option("--model", "gpt-4o-mini"),
          Option("--edit-format", "diff"),
          Option("--yes-always", None),
          Option("--no-pretty", None),
          Option("--no-fancy-input", None),
          Option("--encoding", "utf-8"),
          Option("--chat-history-file", ChatHistoryFile(agent_name)),
          Option("--restore-chat-history", None),
          Option("--input-history-file", InputHistoryFile(agent_name)) >>
       \o [k \in DOMAIN files |-> Option("--file", files[k])]
       \o << Option("--file", TodoList),
              Option("--read", agent_filepath),
              Option("--message", << "# Objective", objective_content >>) >>

\* the value that follows opt in cmd
OptionValue(command, opt) ==
    command[CHOOSE i \in DOMAIN command : command[i].opt = opt].val

NoCommand == << >>

\* no planner and no editor at work on the histories
IdleHistory ==
    /\ hist_pc = [a \in Planners |-> "none"]
    /\ hist_runs = [a \in Planners |-> 0]
    /\ hist_files = [f \in HistoryFiles |-> 0]
    /\ chat_file = [a \in Planners |-> None]
    /\ chat_history = [a \in Planners |-> 0]
    /\ ed_cmd = [a \in Planners |-> NoCommand]
    /\ environ = NoPath
    /\ environ_before = NoPath

InitCtx ==
    /\ IdleHistory
    /\ listed \in Listings
    /\ disk \in SUBSET CtxPaths
    /\ dirs \in SUBSET { "docs" }
    /\ SubPath \in disk => "docs" \in dirs
    /\ load_pc = "idle"
    /\ context_files = << >>
    /\ launch_pc = "idle"
    /\ cmd_files = {}

\* _load_context_map called on the map of the cycle
LoadContextMap ==
    /\ load_pc = "idle"
    /\ LET r == _load_context_map(listed, 1, disk, dirs, << >>)
       IN /\ disk' = r.disk
          /\ dirs' = r.dirs
          /\ context_files' = r.context_files
          /\ load_pc' = IF r.raised THEN "raised" ELSE "returned"
    /\ UNCHANGED << listed, launch_pc, cmd_files >>
    /\ UNCHANGED historyVars
    /\ UNCHANGED << runnerVars, teamVars, phaseVars, aiderVars, planVars,
                    mapVars, webVars,
                    editVars >>

\* _run_aider_with_encoding lines 84-90: the command is built with an empty
\* list of context files
EditorBuildCommand ==
    /\ launch_pc = "idle"
    /\ cmd_files' = _build_aider_command(<< >>)
    /\ launch_pc' = "built"
    /\ UNCHANGED << listed, disk, dirs, load_pc, context_files >>
    /\ UNCHANGED historyVars
    /\ UNCHANGED << runnerVars, teamVars, phaseVars, aiderVars, planVars,
                    mapVars, webVars,
                    editVars >>

\* _run_aider_with_encoding lines 95-99: the editor subprocess is created
EditorLaunch ==
    /\ launch_pc = "built"
    /\ launch_pc' = "launched"
    /\ UNCHANGED << listed, disk, dirs, load_pc, context_files, cmd_files >>
    /\ UNCHANGED historyVars
    /\ UNCHANGED << runnerVars, teamVars, phaseVars, aiderVars, planVars,
                    mapVars, webVars,
                    editVars >>

\* the planner and the editor take turns on the histories of the agents
InitHistory ==
    /\ hist_pc = [a \in Planners |-> "plan"]
    /\ hist_runs = [a \in Planners |-> 0]
    /\ hist_files = [f \in HistoryFiles |-> 0]
    /\ chat_file = [a \in Planners |-> None]
    /\ chat_history = [a \in Planners |-> 0]
    /\ ed_cmd = [a \in Planners |-> NoCommand]
    /\ environ \in StartPaths
    /\ environ_before = environ
    /\ listed = << >>
    /\ disk = {}
    /\ dirs = {}
    /\ load_pc = "none"
    /\ context_files = << >>
    /\ launch_pc = "none"
    /\ cmd_files = {}

\* objective_manager.py lines 120-132: the planner loads the recent chat
\* history of the agent; a file that does not exist gives the empty history
CreateObjectivePrompt(a) ==
    /\ hist_pc[a] = "plan"
    /\ hist_runs[a] < MaxRuns
    /\ LET agent_name == _extract_agent_name(AgentFilePath(a))
       IN /\ chat_file' = [chat_file EXCEPT ![a] = ChatFile(agent_name)]
          /\ chat_history' =
                [chat_history EXCEPT ![a] = hist_files[ChatFile(agent_name)]]
    /\ hist_pc' = [hist_pc EXCEPT ![a] = "build"]
    /\ UNCHANGED << hist_runs, hist_files, ed_cmd, environ, environ_before >>
    /\ UNCHANGED contextVars
    /\ UNCHANGED << runnerVars, teamVars, phaseVars, aiderVars, planVars,
                    mapVars, webVars,
                    editVars >>

\* _build_aider_command lines 286-327, called as on lines 85-90 with the
\* objective the planner saved: the command is built and the search path of
\* the process is reassigned
BuildAiderCommand(a) ==
    /\ hist_pc[a] = "build"
    /\ \E objective_content \in Objectives :
          ed_cmd' = [ed_cmd EXCEPT
                       ![a] = AiderCommand(AgentFilePath(a), << >>,
                                           objective_content)]
    /\ environ' = PythonPath(environ)
    /\ hist_runs' = [hist_runs EXCEPT ![a] = @ + 1]
    /\ hist_pc' = [hist_pc EXCEPT ![a] = "editor"]
    /\ UNCHANGED << hist_files, chat_file, chat_history, environ_before >>
    /\ UNCHANGED contextVars
    /\ UNCHANGED << runnerVars, teamVars, phaseVars, aiderVars, planVars,
                    mapVars, webVars,
                    editVars >>

\* lines 95-113: the editor subprocess runs with the command; it appends
\* its session to the two history files the command names
EditorSession(a) ==
    /\ hist_pc[a] = "editor"
    /\ LET chat == OptionValue(ed_cmd[a], "--chat-history-file")
           input == OptionValue(ed_cmd[a], "--input-history-file")
       IN hist_files' = [hist_files EXCEPT ![chat] = @ + 1, ![input] = @ + 1]
    /\ hist_pc' = [hist_pc EXCEPT ![a] = "plan"]
    /\ UNCHANGED << hist_runs, chat_file, chat_history, ed_cmd, environ,
                    environ_before >>
    /\ UNCHANGED contextVars
    /\ UNCHANGED << runnerVars, teamVars, phaseVars, aiderVars, planVars,
                    mapVars, webVars,
                    editVars >>

\* no context map in use
IdleCtx ==
    /\ IdleHistory
    /\ listed = << >>
    /\ disk = {}
    /\ dirs = {}
    /\ load_pc = "none"
    /\ context_files = << >>
    /\ launch_pc = "none"
    /\ cmd_files = {}

(***************************************************************************)
(* The agent monitor of the web application (parallagon_web.py,            *)
(* agents/kinos_agent.py)                                                  *)
(***************************************************************************)

\* threads running agent.run that one agent can be given
MaxLoops == 2

WebAgents == { AgentTypes[1], AgentTypes[2] }
LoopIds == 1..MaxLoops

\* the threads of agent a that are inside agent.run
LiveLoops(a) ==
    { i \in LoopIds : loop_pc[a][i] \in {"entry", "test", "working"} }

\* start_agents lines 1069-1077: every agent is started and given a thread
InitWeb ==
    /\ ag_running = [a \in WebAgents |-> TRUE]
    /\ ag_last_run = [a \in WebAgents |-> None]
    /\ loop_pc = [a \in WebAgents |->
                     [i \in LoopIds |-> IF i = 1 THEN "entry" ELSE "none"]]
    /\ loops_started = [a \in WebAgents |-> 1]
    /\ mon_pc = "idle"
    /\ mon_agent = None
    /\ stop_called = [a \in WebAgents |-> FALSE]

\* KinOSAgent.run line 242: the thread enters run
LoopEntry(a, i) ==
    /\ loop_pc[a][i] = "entry"
    /\ ag_running' = [ag_running EXCEPT ![a] = TRUE]
    /\ loop_pc' = [loop_pc EXCEPT ![a][i] = "test"]
    /\ UNCHANGED << ag_last_run, loops_started, mon_pc, mon_agent,
                    stop_called >>
    /\ UNCHANGED << runnerVars, teamVars, phaseVars, aiderVars, planVars,
                    mapVars, ctxVars,
                    editVars >>

\* KinOSAgent.run line 243: the loop test
LoopTest(a, i) ==
    /\ loop_pc[a][i] = "test"
    /\ loop_pc' = [loop_pc EXCEPT ![a][i] =
                      IF ag_running[a] THEN "working" ELSE "exited"]
    /\ UNCHANGED << ag_running, ag_last_run, loops_started, mon_pc,
                    mon_agent, stop_called >>
    /\ UNCHANGED << runnerVars, teamVars, phaseVars, aiderVars, planVars,
                    mapVars, ctxVars,
                    editVars >>

\* KinOSAgent.run lines 244-272: the editor returns, last_run is set, the
\* adaptive pause ends
LoopCycleEnd(a, i) ==
    /\ loop_pc[a][i] = "working"
    /\ ag_last_run' = [ag_last_run EXCEPT ![a] = "recent"]
    /\ loop_pc' = [loop_pc EXCEPT ![a][i] = "test"]
    /\ UNCHANGED << ag_running, loops_started, mon_pc, mon_agent,
                    stop_called >>
    /\ UNCHANGED << runnerVars, teamVars, phaseVars, aiderVars, planVars,
                    mapVars, ctxVars,
                    editVars >>

\* more than 30 seconds pass since agent.last_run
TimePasses(a) ==
    /\ ag_last_run[a] = "recent"
    /\ ag_last_run' = [ag_last_run EXCEPT ![a] = "old"]
    /\ UNCHANGED << ag_running, loop_pc, loops_started, mon_pc, mon_agent,
                    stop_called >>
    /\ UNCHANGED << runnerVars, teamVars, phaseVars, aiderVars, planVars,
                    mapVars, ctxVars,
                    editVars >>

\* monitor_agents lines 1004-1013 and KinOSAgent.stop: the agent is found
\* stuck and stopped
MonitorStop(a) ==
    /\ mon_pc = "idle"
    /\ ag_running[a]
    /\ ag_last_run[a] = "old"
    /\ loops_started[a] < MaxLoops
    /\ ag_running' = [ag_running EXCEPT ![a] = FALSE]
    /\ mon_pc' = "start"
    /\ mon_agent' = a
    /\ stop_called' = [stop_called EXCEPT ![a] = TRUE]
    /\ UNCHANGED << ag_last_run, loop_pc, loops_started >>
    /\ UNCHANGED << runnerVars, teamVars, phaseVars, aiderVars, planVars,
                    mapVars, ctxVars,
                    editVars >>

\* monitor_agents line 1014 and KinOSAgent.start
MonitorStart ==
    /\ mon_pc = "start"
    /\ ag_running' = [ag_running EXCEPT ![mon_agent] = TRUE]
    /\ ag_last_run' = [ag_last_run EXCEPT ![mon_agent] = None]
    /\ mon_pc' = "spawn"
    /\ stop_called' = [stop_called EXCEPT ![mon_agent] = FALSE]
    /\ UNCHANGED << loop_pc, loops_started, mon_agent >>
    /\ UNCHANGED << runnerVars, teamVars, phaseVars, aiderVars, planVars,
                    mapVars, ctxVars,
                    editVars >>

\* monitor_agents lines 1015-1020: a new thread is given agent.run
MonitorSpawn ==
    /\ mon_pc = "spawn"
    /\ loops_started' = [loops_started EXCEPT ![mon_agent] = @ + 1]
    /\ loop_pc' =
          [loop_pc EXCEPT ![mon_agent][loops_started[mon_agent] + 1] = "entry"]
    /\ mon_pc' = "idle"
    /\ mon_agent' = None
    /\ UNCHANGED << ag_running, ag_last_run, stop_called >>
    /\ UNCHANGED << runnerVars, teamVars, phaseVars, aiderVars, planVars,
                    mapVars, ctxVars,
                    editVars >>

\* stop_agents line 1098 and KinOSAgent.stop lines 123-126, called from the
\* thread that serves the request
AgentStop(a) ==
    /\ mon_pc = "none"
    /\ ~stop_called[a]
    /\ ag_running' = [ag_running EXCEPT ![a] = FALSE]
    /\ stop_called' = [stop_called EXCEPT ![a] = TRUE]
    /\ UNCHANGED << ag_last_run, loop_pc, loops_started, mon_pc, mon_agent >>
    /\ UNCHANGED << runnerVars, teamVars, phaseVars, aiderVars, planVars,
                    mapVars, ctxVars,
                    editVars >>

\* start_agents lines 1069-1077 without the monitor: every agent is started
\* and given a thread that has not yet entered run
InitStop ==
    /\ ag_running = [a \in WebAgents |-> TRUE]
    /\ ag_last_run = [a \in WebAgents |-> None]
    /\ loop_pc = [a \in WebAgents |->
                     [i \in LoopIds |-> IF i = 1 THEN "entry" ELSE "none"]]
    /\ loops_started = [a \in WebAgents |-> 1]
    /\ mon_pc = "none"
    /\ mon_agent = None
    /\ stop_called = [a \in WebAgents |-> FALSE]

\* the web application has started no agent
IdleWeb ==
    /\ ag_running = [a \in WebAgents |-> FALSE]
    /\ ag_last_run = [a \in WebAgents |-> None]
    /\ loop_pc = [a \in WebAgents |-> [i \in LoopIds |-> "none"]]
    /\ loops_started = [a \in WebAgents |-> 0]
    /\ mon_pc = "none"
    /\ mon_agent = None
    /\ stop_called = [a \in WebAgents |-> FALSE]

(***************************************************************************)
(* SearchReplace (search_replace.py, the class of lines 22-248)            *)
(***************************************************************************)

\* a text is the sequence of its characters
\* longest content given to exact_replace
MaxLen == 4
\* longest old_str and new_str
MaxOld == 2
\* most sections of a document, most lines of a section body
MaxSections == 2
MaxBody == 1

Texts(S, lo, hi) == UNION { [1..n -> S] : n \in lo..hi }

\* the characters of the contents and old_str given to exact_replace: a
\* lower-case letter, an upper-case letter and a space
TextChars == {"a", "A", " "}
NewChars == {"b"}

Whitespace == {" ", "\n"}

\* str.lower() on the characters used
lower(c) == IF c = "A" THEN "a" ELSE IF c = "B" THEN "b" ELSE c

\* the characters re.sub(r'[^a-z0-9]', '', text) keeps
AlnumLower == {"a", "b", "x", "y", "z"}

\* lines 26-46; the NFKD step leaves ASCII characters as they are
_normalize_text(text) ==
    SelectSeq([i \in DOMAIN text |-> lower(text[i])],
              LAMBDA c : c \in AlnumLower)

\* text[i:].startswith(sub), with i counted from 1
StartsAt(text, sub, i) ==
    /\ i >= 1
    /\ i + Len(sub) - 1 <= Len(text)
    /\ SubSeq(text, i, i + Len(sub) - 1) = sub

\* sub in text
Occurs(text, sub) == \E i \in 1..(Len(text) + 1) : StartsAt(text, sub, i)

RECURSIVE lstrip(_)
lstrip(text) ==
    IF text # << >> /\ Head(text) \in Whitespace THEN lstrip(Tail(text))
    ELSE text

RECURSIVE rstrip(_)
rstrip(text) ==
    IF text # << >> /\ text[Len(text)] \in Whitespace
    THEN rstrip(SubSeq(text, 1, Len(text) - 1))
    ELSE text

strip(text) == lstrip(rstrip(text))

\* str.replace with an empty old: new before every character and at the end
RECURSIVE ReplaceEmpty(_, _)
ReplaceEmpty(text, new) ==
    IF text = << >> THEN new
    ELSE new \o << Head(text) >> \o ReplaceEmpty(Tail(text), new)

\* str.replace from position i on: every occurrence, left to right
RECURSIVE ReplaceFrom(_, _, _, _)
ReplaceFrom(text, old, new, i) ==
    IF i > Len(text) THEN << >>
    ELSE IF StartsAt(text, old, i)
         THEN new \o ReplaceFrom(text, old, new, i + Len(old))
         ELSE << text[i] >> \o ReplaceFrom(text, old, new, i + 1)

\* text.replace(old, new)
Replace(text, old, new) ==
    IF old = << >> THEN ReplaceEmpty(text, new)
    ELSE ReplaceFrom(text, old, new, 1)

SearchReplaceResult(success, new_content) ==
    [success |-> success, new_content |-> new_content]

\* new_content=None
NoneContent == << None >>

\* lines 182-206.  The normalised texts hold no whitespace, so
\* normalized_search.split() is one word, or no word when nothing is left
\* of old_str; re.search then finds the word where it first occurs in the
\* normalised content, and the empty pattern matches the empty text.
exact_replace(content, old_str, new_str) ==
    LET normalized_content == _normalize_text(content)
        normalized_search == _normalize_text(old_str)
        exact_match == normalized_search
    IN IF ~Occurs(normalized_content, normalized_search)
       THEN SearchReplaceResult(FALSE, content)
       ELSE SearchReplaceResult(TRUE, Replace(content, exact_match, new_str))

\* text[i+1 .. i+k] are all '#'
HashRun(text, i, k) ==
    \A j \in 1..k : i + j <= Len(text) /\ text[i + j] = "#"

\* the lookahead that ends a section body, tried with text[e] as the next
\* character: (?=\n#{1,6}\s|$) in section_replace, (?=\n# |$) in
\* add_to_section (top).  Without re.MULTILINE, $ matches at the end of the
\* text and before a newline that ends it.
Lookahead(text, e, top) ==
    \/ e = Len(text) + 1
    \/ e = Len(text) /\ text[e] = "\n"
    \/ IF top
       THEN StartsAt(text, << "\n", "#", " " >>, e)
       ELSE /\ e <= Len(text)
            /\ text[e] = "\n"
            /\ \E k \in 1..6 :
                 /\ HashRun(text, e, k)
                 /\ e + k + 1 <= Len(text)
                 /\ text[e + k + 1] \in Whitespace

\* where the lazy (.*?) that starts at from stops
BodyEnd(text, from, top) ==
    CHOOSE e \in from..(Len(text) + 1) :
        /\ Lookahead(text, e, top)
        /\ \A d \in from..(e - 1) : ~Lookahead(text, d, top)

\* list(re.finditer(head + (.*?) + lookahead, text, re.DOTALL)) from position
\* from on: the matches as [start, end), end being the first character
\* after the match
RECURSIVE finditer(_, _, _, _)
finditer(text, head, top, from) ==
    IF \E s \in from..Len(text) : StartsAt(text, head, s)
    THEN LET s == CHOOSE x \in from..Len(text) :
                      /\ StartsAt(text, head, x)
                      /\ \A y \in from..(x - 1) : ~StartsAt(text, head, y)
             e == BodyEnd(text, s + Len(head), top)
         IN << [start |-> s, end |-> e] >> \o finditer(text, head, top, e)
    ELSE << >>

\* texts of lines 118 and 141; no document or body drawn here contains them
DeleteMarker == << "(to delete)" >>
WaitingMessage == << "En attente de contenu a produire..." >>

\* lines 116-161
section_replace(content, section_name, new_section_content) ==
    LET head == section_name \o << "\n" >>
        matches == finditer(content, head, FALSE, 1)
    IN IF strip(new_section_content) = DeleteMarker
       THEN IF matches = << >>
            THEN SearchReplaceResult(FALSE, content)
            ELSE SearchReplaceResult(TRUE,
                   rstrip(SubSeq(content, 1, matches[1].start - 1))
                   \o lstrip(SubSeq(content, matches[1].end, Len(content))))
       ELSE IF matches = << >>
       THEN IF strip(content) = WaitingMessage \/ strip(content) = << >>
            THEN SearchReplaceResult(TRUE, head \o new_section_content)
            ELSE SearchReplaceResult(TRUE,
                   rstrip(content) \o << "\n", "\n" >> \o head
                   \o new_section_content)
       ELSE IF Len(matches) > 1
       THEN SearchReplaceResult(FALSE, content)
       ELSE SearchReplaceResult(TRUE,
              SubSeq(content, 1, matches[1].start - 1)
              \o head \o new_section_content
              \o SubSeq(content, matches[1].end, Len(content)))

\* lines 229-248
add_to_section(content, section_name, new_entry, position) ==
    LET head == << "#", " " >> \o section_name \o << "\n" >>
        matches == finditer(content, head, TRUE, 1)
    IN IF Len(matches) = 0
       THEN SearchReplaceResult(FALSE, NoneContent)
       ELSE IF Len(matches) > 1
       THEN SearchReplaceResult(FALSE, NoneContent)
       ELSE LET match == matches[1]
                current_content ==
                    strip(SubSeq(content, match.start + Len(head),
                                 match.end - 1))
                new_section_content ==
                    IF position = "start"
                    THEN new_entry \o << "\n" >> \o current_content
                    ELSE current_content \o << "\n" >> \o new_entry
                replacement == head \o new_section_content
            IN SearchReplaceResult(TRUE,
                 SubSeq(content, 1, match.start - 1) \o replacement
                 \o SubSeq(content, match.end, Len(content)))

\* ---- the documents the section operations are given: one to MaxSections
\* sections, each a heading line "# <name>" and up to MaxBody body lines
SectionNames == { << "A" >>, << "B" >> }
BodyLines == { << "x" >>, << "y" >> }
NewBodies == { << "z" >> }
Sections == [name : SectionNames, body : Texts(BodyLines, 0, MaxBody)]
Docs == Texts(Sections, 1, MaxSections)

\* "\n".join(lines)
RECURSIVE JoinLines(_)
JoinLines(lines) ==
    IF lines = << >> THEN << >>
    ELSE IF Len(lines) = 1 THEN lines[1]
    ELSE lines[1] \o << "\n" >> \o JoinLines(Tail(lines))

RECURSIVE DocLines(_)
DocLines(doc) ==
    IF doc = << >> THEN << >>
    ELSE << << "#", " " >> \o doc[1].name >> \o doc[1].body
         \o DocLines(Tail(doc))

\* the markdown text of a document
Render(doc) == JoinLines(DocLines(doc))

NoResult == SearchReplaceResult(FALSE, << >>)

Operation(fn, position) == [fn |-> fn, position |-> position]

\* the arguments of one exact_replace call
InitReplace ==
    /\ sr_pc = "input"
    /\ sr_op = Operation("exact_replace", None)
    /\ sr_doc = << >>
    /\ sr_content \in Texts(TextChars, 0, MaxLen)
    /\ sr_old \in Texts(TextChars, 1, MaxOld)
    /\ sr_new \in Texts(NewChars, 1, MaxOld)
    /\ sr_result = NoResult

\* the arguments of one section_replace or add_to_section call
InitSection ==
    /\ sr_pc = "input"
    /\ sr_op \in { Operation("section_replace", None),
                   Operation("add_to_section", "end"),
                   Operation("add_to_section", "start") }
    /\ sr_doc \in Docs
    /\ sr_content = Render(sr_doc)
    /\ sr_old \in SectionNames
    /\ sr_new \in NewBodies
    /\ sr_result = NoResult

ExactReplace ==
    /\ sr_pc = "input"
    /\ sr_op.fn = "exact_replace"
    /\ sr_result' = exact_replace(sr_content, sr_old, sr_new)
    /\ sr_pc' = "done"
    /\ UNCHANGED << sr_op, sr_doc, sr_content, sr_old, sr_new >>
    /\ UNCHANGED << runnerVars, teamVars, phaseVars, aiderVars, planVars,
                    mapVars, ctxVars, webVars >>

SectionReplace ==
    /\ sr_pc = "input"
    /\ sr_op.fn = "section_replace"
    /\ sr_result' = section_replace(sr_content, sr_old, sr_new)
    /\ sr_pc' = "done"
    /\ UNCHANGED << sr_op, sr_doc, sr_content, sr_old, sr_new >>
    /\ UNCHANGED << runnerVars, teamVars, phaseVars, aiderVars, planVars,
                    mapVars, ctxVars, webVars >>

AddToSection ==
    /\ sr_pc = "input"
    /\ sr_op.fn = "add_to_section"
    /\ sr_result' = add_to_section(sr_content, sr_old, sr_new, sr_op.position)
    /\ sr_pc' = "done"
    /\ UNCHANGED << sr_op, sr_doc, sr_content, sr_old, sr_new >>
    /\ UNCHANGED << runnerVars, teamVars, phaseVars, aiderVars, planVars,
                    mapVars, ctxVars, webVars >>

\* no SearchReplace call is made
IdleEdit ==
    /\ sr_pc = "none"
    /\ sr_op = Operation(None, None)
    /\ sr_doc = << >>
    /\ sr_content = << >>
    /\ sr_old = << >>
    /\ sr_new = << >>
    /\ sr_result = NoResult

\* the runner pool before AgentRunner.run is called
IdleRunner ==
    /\ mission_exists = TRUE
    /\ agent_files = {}
    /\ generate_agents = FALSE
    /\ agent_count = 0
    /\ run_pc = "idle"
    /\ available_agents = {}
    /\ spawn_i = 0
    /\ spawn_n = 0
    /\ tasks = {}
    /\ done = {}
    /\ pending = {}
    /\ cur = 0
    /\ task_pc = [t \in TaskIds |-> "free"]
    /\ task_agent = [t \in TaskIds |-> None]
    /\ task_result = [t \in TaskIds |-> "none"]
    /\ _running_agents = {}
    /\ _agent_lock = 0

\* the team loop before run_team_loop is called
IdleTeam ==
    /\ team_agents = {}
    /\ phase_weights = << >>
    /\ main_pc = "idle"
    /\ active_threads = {}
    /\ thr_pc = [r \in RunnerIds |-> "unstarted"]
    /\ thr_agent = [r \in RunnerIds |-> None]
    /\ thr_running = [r \in RunnerIds |-> FALSE]

\* no editor cycle in progress
IdleAider ==
    /\ git_state = [p \in Paths |-> 0]
    /\ aider_pc = "idle"
    /\ phase_idx = 1
    /\ initial_state = [p \in Paths |-> 0]
    /\ final_state = [p \in Paths |-> 0]
    /\ modified_files = {}
    /\ phase_files = << >>
    /\ all_changes = {}
    /\ events = << >>
    /\ cmd = << >>
    /\ phase_cmds = << >>

\* ---- the asyncio runner pool
Init == InitRunner /\ IdleTeam /\ InitPhase /\ IdleAider /\ IdlePlan /\ IdleMap /\ IdleCtx /\ IdleWeb /\ IdleEdit

Next ==
    \/ RunStep
    \/ \E t \in TaskIds : TaskSelect(t)
    \/ \E t \in TaskIds : TaskNoAgent(t)
    \/ \E t \in TaskIds : TaskCycleCompleted(t)
    \/ \E t \in TaskIds : TaskCycleFailed(t)
    \/ EnvRemoveAgentFile

Spec == Init /\ [][Next]_vars

\* the event loop resumes the run coroutine whenever it can continue: its
\* sleeps end and asyncio.wait returns once a task is done
FairSpec == Spec /\ WF_vars(RunStep)

\* ---- the threaded team loop
InitTeamLoop == IdleRunner /\ InitTeam /\ InitPhase /\ IdleAider /\ IdlePlan /\ IdleMap /\ IdleCtx /\ IdleWeb /\ IdleEdit

NextTeam ==
    \/ MainStartRunner
    \/ MainRegisterRunner
    \/ MainInterrupt
    \/ \E r \in RunnerIds : ThreadLoopTest(r)
    \/ \E r \in RunnerIds : ThreadSelect(r)
    \/ \E r \in RunnerIds : ThreadAgentReturn(r)
    \/ \E r \in RunnerIds : ThreadErrorPause(r)
    \/ TeamPhaseChange

SpecTeam == InitTeamLoop /\ [][NextTeam]_vars

\* ---- the phase controller
InitPhaseCalls == IdleRunner /\ IdleTeam /\ InitPhase /\ IdleAider /\ IdlePlan /\ IdleMap /\ IdleCtx /\ IdleWeb /\ IdleEdit

NextPhase == \E t \in TokenSamples : DeterminePhase(t)

SpecPhase == InitPhaseCalls /\ [][NextPhase]_vars

\* ---- every operation of the PhaseService, called by one thread
NextPhaseOps ==
    \/ \E t \in TokenSamples : DeterminePhase(t)
    \/ \E name \in ForceNames : ForcePhase(name)
    \/ GetStatusInfo

\* ---- determine_phase and get_status_info, the phase is never forced
NextPhaseStatus ==
    \/ \E t \in TokenSamples : DeterminePhase(t)
    \/ GetStatusInfo

SpecPhaseStatus == InitPhaseCalls /\ [][NextPhaseStatus]_vars

SpecPhaseOps == InitPhaseCalls /\ [][NextPhaseOps]_vars

\* ---- determine_phase called once by each of several threads
NextPhaseThreads ==
    \/ \E c \in Callers, t \in TokenSamples : DpStoreTotal(c, t)
    \/ \E c \in Callers : DpReadOld(c)
    \/ \E c \in Callers : DpCompute(c)
    \/ \E c \in Callers : DpStorePhase(c)
    \/ \E c \in Callers : DpStoreTransition(c)
    \/ \E c \in Callers : DpReturn(c)

SpecPhaseThreads == InitPhaseCalls /\ [][NextPhaseThreads]_vars

\* ---- one editor cycle
\* the cycle is given a command _build_aider_command returned
InitAider ==
    /\ git_state \in GitStates
    /\ aider_pc = "start"
    /\ phase_idx = 1
    /\ initial_state = [p \in Paths |-> 0]
    /\ final_state = [p \in Paths |-> 0]
    /\ modified_files = {}
    /\ phase_files = << >>
    /\ all_changes = {}
    /\ events = << >>
    /\ cmd \in { AiderCommand(AgentFilePath(a), << >>, o) :
                    a \in Planners, o \in Objectives }
    /\ phase_cmds = << >>

InitCycle == IdleRunner /\ IdleTeam /\ InitPhase /\ InitAider /\ IdlePlan /\ IdleMap /\ IdleCtx /\ IdleWeb /\ IdleEdit

NextAider ==
    \/ AiderConfigure
    \/ AiderPhaseBegin
    \/ AiderEditorExit
    \/ AiderPostPhase

SpecAider == InitCycle /\ [][NextAider]_vars

\* ---- the cycles in the executor: the mission directory is as found, the
\* pool itself is not followed
InitExecutor ==
    /\ mission_exists \in BOOLEAN
    /\ agent_files \in SUBSET Planners
    /\ generate_agents = FALSE
    /\ agent_count = 0
    /\ run_pc = "idle"
    /\ available_agents = {}
    /\ spawn_i = 0
    /\ spawn_n = 0
    /\ tasks = {}
    /\ done = {}
    /\ pending = {}
    /\ cur = 0
    /\ task_pc = [t \in TaskIds |-> "free"]
    /\ task_agent = [t \in TaskIds |-> None]
    /\ task_result = [t \in TaskIds |-> "none"]
    /\ _running_agents = {}
    /\ _agent_lock = 0

InitPlanning == InitExecutor /\ IdleTeam /\ InitPhase /\ IdleAider /\ InitPlan /\ IdleMap /\ IdleCtx /\ IdleWeb /\ IdleEdit

NextPlan ==
    \/ \E a \in Planners : CycleStart(a)
    \/ \E a \in Planners : CycleObjectiveContent(a)
    \/ \E a \in Planners : CycleSaveObjective(a)
    \/ \E a \in Planners : CycleGenerateMap(a)
    \/ \E a \in Planners : CycleRunAider(a)

SpecPlan == InitPlanning /\ [][NextPlan]_vars

\* ---- the project map and its readers
InitMapService ==
    IdleRunner /\ IdleTeam /\ InitPhase /\ IdleAider /\ IdlePlan /\ InitMap
    /\ IdleCtx /\ IdleWeb /\ IdleEdit

NextMap ==
    \/ MapScan
    \/ MapFormat
    \/ MapOpen
    \/ MapWrite
    \/ MapClose
    \/ MapRead

SpecMap == InitMapService /\ [][NextMap]_vars

\* ---- the context map and the editor launch
InitContext ==
    IdleRunner /\ IdleTeam /\ InitPhase /\ IdleAider /\ IdlePlan /\ IdleMap
    /\ InitCtx /\ IdleWeb /\ IdleEdit

NextContext ==
    \/ LoadContextMap
    \/ EditorBuildCommand
    \/ EditorLaunch

SpecContext == InitContext /\ [][NextContext]_vars

\* ---- the histories of the agents and the editor command
InitHistories ==
    IdleRunner /\ IdleTeam /\ InitPhase /\ IdleAider /\ IdlePlan /\ IdleMap
    /\ InitHistory /\ IdleWeb /\ IdleEdit

NextHistory ==
    \/ \E a \in Planners : CreateObjectivePrompt(a)
    \/ \E a \in Planners : BuildAiderCommand(a)
    \/ \E a \in Planners : EditorSession(a)

SpecHistory == InitHistories /\ [][NextHistory]_vars

\* ---- the agents of the web application and their monitor
InitMonitor ==
    IdleRunner /\ IdleTeam /\ InitPhase /\ IdleAider /\ IdlePlan /\ IdleMap
    /\ IdleCtx /\ InitWeb /\ IdleEdit

NextMonitor ==
    \/ \E a \in WebAgents, i \in LoopIds : LoopEntry(a, i)
    \/ \E a \in WebAgents, i \in LoopIds : LoopTest(a, i)
    \/ \E a \in WebAgents, i \in LoopIds : LoopCycleEnd(a, i)
    \/ \E a \in WebAgents : TimePasses(a)
    \/ \E a \in WebAgents : MonitorStop(a)
    \/ MonitorStart
    \/ MonitorSpawn

SpecMonitor == InitMonitor /\ [][NextMonitor]_vars

\* ---- the runner pool while the phase weights of the agents are known:
\* the pool's selection never reads them
WeightedPool ==
    /\ team_agents = {}
    /\ phase_weights \in [Agents -> ConfiguredWeights \cup {DefaultWeightTenths}]
    /\ main_pc = "idle"
    /\ active_threads = {}
    /\ thr_pc = [r \in RunnerIds |-> "unstarted"]
    /\ thr_agent = [r \in RunnerIds |-> None]
    /\ thr_running = [r \in RunnerIds |-> FALSE]

InitSelect == InitRunner /\ WeightedPool /\ InitPhase /\ IdleAider /\ IdlePlan /\ IdleMap /\ IdleCtx /\ IdleWeb /\ IdleEdit

SpecSelect == InitSelect /\ [][Next]_vars

\* ---- agents that are stopped while their threads run
InitStopAgents ==
    IdleRunner /\ IdleTeam /\ InitPhase /\ IdleAider /\ IdlePlan /\ IdleMap
    /\ IdleCtx /\ InitStop /\ IdleEdit

NextStop ==
    \/ \E a \in WebAgents, i \in LoopIds : LoopEntry(a, i)
    \/ \E a \in WebAgents, i \in LoopIds : LoopTest(a, i)
    \/ \E a \in WebAgents, i \in LoopIds : LoopCycleEnd(a, i)
    \/ \E a \in WebAgents : TimePasses(a)
    \/ \E a \in WebAgents : AgentStop(a)

SpecStop == InitStopAgents /\ [][NextStop]_vars

\* ---- one exact_replace call
InitExactReplace ==
    IdleRunner /\ IdleTeam /\ InitPhase /\ IdleAider /\ IdlePlan /\ IdleMap
    /\ IdleCtx /\ IdleWeb /\ InitReplace

NextReplace == ExactReplace

SpecReplace == InitExactReplace /\ [][NextReplace]_vars

\* ---- one section_replace or add_to_section call
InitSectionEdit ==
    IdleRunner /\ IdleTeam /\ InitPhase /\ IdleAider /\ IdlePlan /\ IdleMap
    /\ IdleCtx /\ IdleWeb /\ InitSection

NextSection ==
    \/ SectionReplace
    \/ AddToSection

SpecSection == InitSectionEdit /\ [][NextSection]_vars

(***************************************************************************)
(* Properties of the runner pool                                           *)
(***************************************************************************)

\* C1: at every instant the number of in-flight cycle tasks, and the number
\* of agents in _running_agents, is at most agent_count
C1_ConcurrencyBound ==
    /\ Cardinality(InFlight) <= agent_count
    /\ Cardinality(_running_agents) <= agent_count

\* the pool is full after a completed task was replaced
C1_Witness ==
    /\ run_pc = "handle"
    /\ done = {}
    /\ agent_count >= 2
    /\ Cardinality(InFlight) = agent_count
    /\ Cardinality(_running_agents) = agent_count

\* the tasks executing a cycle for agent a
ActiveCycles(a) ==
    { t \in TaskIds : task_pc[t] = "executing" /\ task_agent[t] = a }

\* C2: at most one cycle is active per agent, and a select step never
\* returns an agent that is in _running_agents
C2_PerAgentExclusion ==
    /\ [](\A a \in Agents : Cardinality(ActiveCycles(a)) <= 1)
    /\ [][\A t \in TaskIds :
            (task_pc[t] = "created" /\ task_pc'[t] = "executing")
                => /\ task_agent'[t] \notin _running_agents
                   /\ task_agent'[t] \in _running_agents']_vars

\* two cycles run at the same time, the second selected while the first ran
C2_Witness ==
    \E t, u \in TaskIds :
        /\ t # u
        /\ task_pc[t] = "executing"
        /\ task_pc[u] = "executing"
        /\ task_agent[t] # task_agent[u]

\* C4: every completed cycle task is eventually replaced by a new task
C4_Replacement ==
    \A s \in TaskIds : (task_pc[s] = "done") ~> (task_pc[s] = "created")

\* a replacement task has just been created by the maintenance loop
C4_Witness ==
    /\ run_pc = "handle"
    /\ \E t \in pending : task_pc[t] = "created"

\* task t raises in this step
FailsNow(t) ==
    /\ task_pc[t] = "executing"
    /\ task_pc'[t] = "done"
    /\ task_result'[t] = "exc"

\* the run coroutine awaits the failed task t in this step
ReapsFailed(t) ==
    /\ run_pc = "handle"
    /\ t \in done
    /\ t \notin done'
    /\ task_result[t] = "exc"

OthersUntouched(t) ==
    \A u \in TaskIds \ {t} :
        /\ task_pc'[u] = task_pc[u]
        /\ task_agent'[u] = task_agent[u]
        /\ task_result'[u] = task_result[u]

\* C5: a cycle that raises leaves the run coroutine and the other tasks as
\* they are, and awaiting the failed task does not end run
C5_Isolation ==
    [][\A t \in TaskIds :
          /\ FailsNow(t) => (OthersUntouched(t) /\ UNCHANGED runLocals)
          /\ ReapsFailed(t) =>
                (OthersUntouched(t) /\ run_pc' \in {"handle", "sleep3"})]_vars

\* a failed task is being replaced while another cycle is still running
C5_Witness ==
    /\ run_pc = "sleep3"
    /\ task_result[cur] = "exc"
    /\ \E u \in TaskIds \ {cur} : task_pc[u] = "executing"

\* C15: when the mission file does not exist, run ends with SystemExit(1)
\* before agent generation and before any cycle task: no role-prompt file
\* is created, no objective is written and no agent is marked running
C15_MissingMissionExits ==
    /\ [](~mission_exists =>
            /\ run_pc \in {"start", "exit1"}
            /\ tasks = {} /\ pending = {} /\ InFlight = {}
            /\ \A t \in TaskIds : task_pc[t] = "free"
            /\ _running_agents = {})
    /\ [][~mission_exists =>
            /\ agent_files' = agent_files
            /\ objective_file' = objective_file]_vars

\* run has exited although a generation was requested and no role prompt
\* exists
C15_Witness ==
    /\ ~mission_exists
    /\ run_pc = "exit1"
    /\ generate_agents
    /\ agent_files = {}
    /\ agent_count >= 1

\* C16: when run is started with generate_agents, or while no role-prompt
\* file exists, the first cycle task is created by the step in which the
\* agent generation returns; no task exists before or during the generation
C16_GenerationBeforeCycles ==
    /\ [](run_pc \in {"start", "generate"} =>
            /\ tasks = {}
            /\ \A t \in TaskIds : task_pc[t] = "free")
    /\ [][(tasks = {} /\ tasks' # {} /\ (generate_agents \/ agent_files = {}))
            => run_pc = "generate"]_vars

\* the first task exists, created when the requested generation returned
\* with every role prompt written
C16_Witness ==
    /\ run_pc = "sleep10"
    /\ generate_agents
    /\ spawn_i = 1
    /\ tasks = {1}
    /\ task_pc[1] = "created"
    /\ agent_files = Agents

(***************************************************************************)
(* Properties of the threaded team loop                                    *)
(***************************************************************************)

\* C3: no two runner threads execute a cycle for the same agent name at
\* the same time
C3_TeamExclusion ==
    \A r1, r2 \in RunnerIds :
        (r1 # r2 /\ thr_pc[r1] = "agent_run" /\ thr_pc[r2] = "agent_run")
            => thr_agent[r1] # thr_agent[r2]

\* C19: once the KeyboardInterrupt handler of run_team_loop has run, every
\* runner thread that was started has been told to stop and no runner
\* thread starts a new agent cycle
C19_CancellationStopsCycles ==
    /\ [](main_pc = "stopped" =>
            \A r \in RunnerIds :
                thr_pc[r] # "unstarted" => ~thr_running[r])
    /\ [][main_pc = "stopped" =>
            \A r \in RunnerIds :
                thr_pc'[r] = "agent_run" => thr_pc[r] = "agent_run"]_vars

(***************************************************************************)
(* Properties of the phase controller                                      *)
(***************************************************************************)

\* the determine_phase call made by this step, when there is one
CallMade == Len(calls') = Len(calls) + 1
LastCall == calls[Len(calls)]

\* C6: a call whose total lies in EXPANSION_TOKENS..CONVERGENCE_TOKENS never
\* changes the phase; the phase changes only on a total above
\* CONVERGENCE_TOKENS in EXPANSION or below EXPANSION_TOKENS in CONVERGENCE
C6_Hysteresis ==
    [][CallMade =>
        LET t == calls'[Len(calls')].arg
        IN /\ (EXPANSION_TOKENS <= t /\ t <= CONVERGENCE_TOKENS)
                 => current_phase' = current_phase
           /\ current_phase' # current_phase
                 => \/ (current_phase = "EXPANSION" /\ t > CONVERGENCE_TOKENS)
                    \/ (current_phase = "CONVERGENCE" /\ t < EXPANSION_TOKENS)
      ]_vars

\* CONVERGENCE was kept by a call made with a total on a boundary of the band
C6_Witness ==
    /\ Len(calls) >= 2
    /\ LastCall.arg \in {EXPANSION_TOKENS, CONVERGENCE_TOKENS}
    /\ current_phase = "CONVERGENCE"
    /\ last_transition < now

\* the two-state machine of the specification, with L x Cth and L x Eth
\* taken exactly: the phase after the first n observations
RECURSIVE RefPhase(_, _)
RefPhase(obs, n) ==
    IF n = 0 THEN "EXPANSION"
    ELSE LET prev == RefPhase(obs, n - 1)
             t == obs[n].arg
         IN IF prev = "EXPANSION"
                /\ t * 100 > MODEL_TOKEN_LIMIT * CONVERGENCE_THRESHOLD_PCT
            THEN "CONVERGENCE"
            ELSE IF prev = "CONVERGENCE"
                    /\ t * 100 < MODEL_TOKEN_LIMIT * EXPANSION_THRESHOLD_PCT
            THEN "EXPANSION"
            ELSE prev

\* C7: after every determine_phase call the stored and the returned phase
\* are the phase of the reference machine started in EXPANSION
C7_ReferenceMachine ==
    /\ current_phase = RefPhase(calls, Len(calls))
    /\ Len(calls) > 0 => LastCall.ret = RefPhase(calls, Len(calls))

\* the phase went to CONVERGENCE and came back to EXPANSION
C7_Witness ==
    /\ Len(calls) >= 3
    /\ calls[1].ret = "EXPANSION"
    /\ \E i \in 2..(Len(calls) - 1) : calls[i].ret = "CONVERGENCE"
    /\ current_phase = "EXPANSION"
    /\ LastCall.arg = EXPANSION_TOKENS - 1

(***************************************************************************)
(* Properties of the editor cycle                                          *)
(***************************************************************************)

\* C8: the modified set of a phase is { p : before[p] # after[p] } over the
\* paths tracked in either snapshot, added and deleted files included
C8_ChangeDetection ==
    Len(phase_files) > 0 =>
        modified_files =
            { p \in Paths : initial_state[p] # final_state[p] }

\* the phases whose editor was launched, in order
Launched == SelectSeq(events, LAMBDA e : e.ev = "launch")

EditorFailed == \E i \in DOMAIN events : events[i].ev = "return" /\ ~events[i].ok

\* C9: when the editor exits non-zero in a phase, the remaining phases of
\* the cycle are still executed and the modified set is the union of the
\* phases that succeeded
C9_BestEffort ==
    (aider_pc \in {"raised", "finished"} /\ EditorFailed)
        => /\ Len(Launched) = 3
           /\ all_changes = UnionAll(phase_files)

\* position of the first event of kind ev of phase ph, 0 when there is none
FirstEvent(ev, ph) ==
    IF \E i \in DOMAIN events : events[i].ev = ev /\ events[i].phase = ph
    THEN CHOOSE i \in DOMAIN events :
            /\ events[i].ev = ev /\ events[i].phase = ph
            /\ \A j \in 1..(i - 1) : ~(events[j].ev = ev /\ events[j].phase = ph)
    ELSE 0

ExpectedPhases == << "Production", "Role-specific", "Final Check" >>

C12_MapUpdatedAfterModification ==
    (aider_pc = "finished" /\ \E k \in DOMAIN phase_files : phase_files[k] # {})
        => \E i \in DOMAIN events : events[i].ev = "update_map"

(***************************************************************************)
(* Properties of the cycle in the executor                                 *)
(***************************************************************************)

CycleDid(a, ev) == \E i \in DOMAIN cyc_events[a] : cyc_events[a][i] = ev

\* C11: a cycle whose objective generation failed (missing mission or role
\* prompt, or the language-model call raised) has ended in failure, has not
\* asked for the context map and has not called the editor
C11_PlanningFailsFast ==
    \A a \in Planners :
        CycleDid(a, "objective_failed") =>
            /\ cyc_pc[a] = "failed"
            /\ ~CycleDid(a, "map_generated")
            /\ ~CycleDid(a, "map_failed")
            /\ ~CycleDid(a, "run_aider_called")
            /\ cyc_events[a][Len(cyc_events[a])] = "objective_failed"

\* the language-model call of one cycle raised while another agent's cycle
\* went on to its context map
C11_Witness ==
    \E a, b \in Planners :
        /\ a # b
        /\ cyc_events[a] = << "validated", "objective_failed" >>
        /\ cyc_pc[a] = "failed"
        /\ CycleDid(b, "map_generated")

\* a step of generate_objective for agent a
PlannerStep(a) ==
    /\ cyc_pc[a] \in {"idle", "completed", "failed", "llm", "save"}
    /\ cyc_events'[a] # cyc_events[a]

\* C18: a step of the planner of agent a leaves the objective, the context
\* map and the role prompt of every other agent unchanged, also while the
\* planner of another agent is running; the only file it writes is the
\* objective of a, which the save overwrites with the new text
C18_PlannerFrame ==
    [][\A a \in Planners :
          PlannerStep(a) =>
             /\ \A b \in Planners \ {a} :
                   objective_file'[b] = objective_file[b]
             /\ map_file' = map_file
             /\ agent_files' = agent_files
             /\ mission_exists' = mission_exists
             /\ IF cyc_pc[a] = "save"
                THEN objective_file'[a] = cyc_content[a]
                ELSE objective_file'[a] = objective_file[a]
      ]_vars

\* the second run of one planner has saved its objective while the planner
\* of another agent is between its language-model call and its save
C18_Witness ==
    \E a, b \in Planners :
        /\ a # b
        /\ cyc_runs[a] = 2
        /\ cyc_pc[a] = "map"
        /\ objective_file[a] = cyc_content[a]
        /\ cyc_pc[b] = "save"
        /\ objective_file[b] # 0
        /\ objective_file[b] # cyc_content[b]

(***************************************************************************)
(* Properties of the project map                                           *)
(***************************************************************************)

\* C13: whatever a reader of map.md observes is a complete content: one
\* that a finished generate_map call left on disk, or the whole content of
\* the call in progress; never an empty or partly written file
C13_AtomicOverwrite ==
    map_seen # Unread =>
        \/ map_seen \in map_versions
        \/ gen_pc = "writing" /\ map_seen = map_content

\* C14: generate_map returns True exactly when map.md holds the content
\* formatted from a scan that read every directory of the tree, and False
\* whenever the scan, the formatting or the write failed
C14_ResultReflectsFailure ==
    gen_pc = "returned" =>
        (gen_result = "True"
            <=> (unreadable = {} /\ map_md = CompleteMap(generated)))

(***************************************************************************)
(* Properties of the context map                                           *)
(***************************************************************************)

ListedPaths == { listed[k] : k \in DOMAIN listed }

\* C17: when the editor is launched every listed path exists and is a
\* --file argument, and a _load_context_map call returns with every listed
\* path on disk, the missing ones created at the root or in a new directory
C17_ContextFilesExist ==
    /\ launch_pc = "launched" =>
          (ListedPaths \subseteq disk /\ ListedPaths \subseteq cmd_files)
    /\ load_pc # "idle" =>
          (load_pc = "returned" /\ ListedPaths \subseteq disk)

(***************************************************************************)
(* Properties of the agent monitor                                         *)
(***************************************************************************)

\* C20: after the monitor has restarted an agent the replaced run loop no
\* longer starts cycles: only the thread created last for an agent passes
\* the loop test, so at most one run loop goes on executing for the agent
C20_StuckLoopReplaced ==
    [][\A a \in WebAgents : \A i \in LoopIds :
          (loop_pc[a][i] = "test" /\ loop_pc'[a][i] = "working")
              => i = loops_started[a]
      ]_vars


(***************************************************************************)
(* Properties of agent selection                                           *)
(***************************************************************************)

\* C21: the pool's selection never gives a task an agent of weight 0 under
\* the current phase while an unused available agent of positive weight
\* could have been drawn
C21_ZeroWeightNeverSelected ==
    [][\A t \in TaskIds :
         (task_pc[t] = "created" /\ task_pc'[t] = "executing"
            /\ WeightOf(phase_weights, task_agent'[t]) = 0)
         => \A b \in UnusedAgents(_get_available_agents(agent_files),
                                  _running_agents) :
                WeightOf(phase_weights, b) = 0]_vars

\* C22: a draw made while every team agent has weight 0 under the current
\* phase does not fail: run_team_loop does not leave its loop on an
\* exception and no runner thread lands in its error pause
C22_ZeroWeightsFallback ==
    /\ main_pc # "raised"
    /\ \A r \in RunnerIds : thr_pc[r] # "sleep5"

(***************************************************************************)
(* Properties of determine_phase under concurrent callers                  *)
(***************************************************************************)

\* the orders in which the callers' calls can be executed one after another
CallOrders ==
    { o \in [Callers -> Callers] : \A c1, c2 \in Callers : c1 # c2 => o[c1] # o[c2] }

\* the phase after the first n calls of order o, executed serially from the
\* state of __init__
RECURSIVE SerialPhase(_, _)
SerialPhase(o, n) ==
    IF n = 0 THEN "EXPANSION"
    ELSE NewPhase(SerialPhase(o, n - 1), dp_arg[o[n]])

\* whether one of the first n calls of order o changed the phase
RECURSIVE SerialTransition(_, _)
SerialTransition(o, n) ==
    IF n = 0 THEN FALSE
    ELSE \/ SerialTransition(o, n - 1)
         \/ SerialPhase(o, n) # SerialPhase(o, n - 1)

\* C23: when the concurrent determine_phase calls have all returned, the
\* current phase, the stored total and whether a transition was recorded
\* are those of the same calls executed in some serial order
C23_Serializable ==
    (\A c \in Callers : dp_pc[c] = "returned")
        => \E o \in CallOrders :
              /\ current_phase = SerialPhase(o, MaxCallers)
              /\ total_tokens = dp_arg[o[MaxCallers]]
              /\ (last_transition # 0) = SerialTransition(o, MaxCallers)

(***************************************************************************)
(* Properties of a failing push                                            *)
(***************************************************************************)

\* the step reports a push that failed
PushFailed ==
    /\ Len(events') > Len(events)
    /\ events'[Len(events')].ev = "push"
    /\ ~events'[Len(events')].ok

\* C24: a phase whose push fails reports it at info level and still returns
\* its modified set and final snapshot; the next phase is started or, after
\* the third phase, the cycle finishes with the changes of all phases
C24_PushFailureTolerated ==
    [][PushFailed =>
        /\ events'[Len(events')].level = "info"
        /\ aider_pc' # "raised"
        /\ final_state' = git_state
        /\ modified_files' = _get_modified_files(initial_state, git_state)
        /\ phase_files' = Append(phase_files, modified_files')
        /\ IF phase_idx < Len(PhaseSequence)
           THEN aider_pc' = "phase_begin" /\ phase_idx' = phase_idx + 1
           ELSE aider_pc' = "finished" /\ all_changes' = UnionAll(phase_files')
      ]_vars

\* the push of the first phase failed, the two other phases ran and the
\* cycle finished
C24_Witness ==
    /\ aider_pc = "finished"
    /\ \E i \in DOMAIN events :
         /\ events[i].ev = "push" /\ ~events[i].ok
         /\ events[i].phase = PhaseSequence[1]
         /\ \E j \in DOMAIN events :
              j > i /\ events[j].ev = "launch"
                    /\ events[j].phase = PhaseSequence[2]
    /\ Len(phase_files) = Len(PhaseSequence)
    /\ phase_files[1] # {}

(***************************************************************************)
(* Properties of SearchReplace                                             *)
(***************************************************************************)

\* C25: exact_replace called with an old_str that occurs in content succeeds
\* and returns content with one occurrence of old_str replaced by new_str,
\* everything before and after that occurrence being kept
C25_ExactReplace ==
    (sr_pc = "done" /\ sr_op.fn = "exact_replace" /\ Occurs(sr_content, sr_old))
        => /\ sr_result.success
           /\ \E i \in 1..Len(sr_content) :
                /\ StartsAt(sr_content, sr_old, i)
                /\ sr_result.new_content =
                      SubSeq(sr_content, 1, i - 1) \o sr_new
                      \o SubSeq(sr_content, i + Len(sr_old), Len(sr_content))

\* the sections of doc that carry the name
Named(doc, name) == { k \in DOMAIN doc : doc[k].name = name }

\* the body a section edit is to leave in the named section
EditedBody(body, op, new) ==
    IF op.fn = "section_replace" THEN << new >>
    ELSE IF op.position = "start" THEN << new >> \o body
    ELSE body \o << new >>

\* the document with the new body in the named section and every other
\* section as it was
EditedDoc(doc, name, op, new) ==
    [k \in DOMAIN doc |->
        IF doc[k].name = name
        THEN [doc[k] EXCEPT !.body = EditedBody(doc[k].body, op, new)]
        ELSE doc[k]]

\* C26: section_replace and add_to_section, called on a document that has
\* the named section exactly once, succeed and return the document with the
\* new body in that section (the old entries followed by the new one for
\* position end), every other heading and body unchanged and in place
C26_SectionFrame ==
    (sr_pc = "done" /\ sr_op.fn \in {"section_replace", "add_to_section"}
        /\ Cardinality(Named(sr_doc, sr_old)) = 1)
        => /\ sr_result.success
           /\ sr_result.new_content =
                 Render(EditedDoc(sr_doc, sr_old, sr_op, sr_new))

(***************************************************************************)
(* Properties of stopping an agent                                         *)
(***************************************************************************)

\* C27: once stop() has been called on an agent, no thread running its run
\* loop passes the loop test again and starts another editor invocation,
\* whether the thread had entered run before the call or not
C27_StopHonoured ==
    [][\A a \in WebAgents : \A i \in LoopIds :
          (stop_called[a] /\ loop_pc[a][i] = "test")
              => loop_pc'[a][i] # "working"
      ]_vars

(***************************************************************************)
(* Properties of a cycle task that finds no agent                          *)
(***************************************************************************)

\* every agent that has a role-prompt file has an active cycle
AllAgentsBusy == _get_available_agents(agent_files) \subseteq _running_agents

\* the run coroutine awaits in this step the task t, which returned
ReapsReturned(t) ==
    /\ run_pc = "handle"
    /\ t \in done
    /\ t \notin done'
    /\ task_result[t] = "ok"

\* C28: a task that selects while every agent with a role-prompt file has an
\* active cycle gets no agent and leaves _running_agents as it is; it then
\* ends without having executed a cycle, and when the run coroutine awaits
\* a task that returned it goes on to create a new task in its place
C28_NoAgentRetry ==
    [][\A t \in TaskIds :
          /\ (task_pc[t] = "created" /\ task_pc'[t] # "created" /\ AllAgentsBusy)
                => /\ task_pc'[t] = "sleep1"
                   /\ task_agent'[t] = None
                   /\ _running_agents' = _running_agents
          /\ (task_pc[t] = "sleep1" /\ task_pc'[t] # "sleep1")
                => /\ task_pc'[t] = "done"
                   /\ task_result'[t] = "ok"
                   /\ task_agent'[t] = None
                   /\ _running_agents' = _running_agents
          /\ ReapsReturned(t) => (run_pc' = "sleep3" /\ cur' = t)
          /\ (run_pc = "sleep3" /\ run_pc' # "sleep3" /\ cur = t)
                => task_pc'[t] = "created"
      ]_vars

\* a task has just found every agent that still has a role-prompt file
\* running in another task, and waits its second before it returns
C28_Witness ==
    /\ \E t \in TaskIds :
         /\ task_pc[t] = "sleep1"
         /\ task_agent[t] = None
         /\ \E u \in TaskIds \ {t} : task_pc[u] = "executing"
    /\ _get_available_agents(agent_files) # {}
    /\ AllAgentsBusy

(***************************************************************************)
(* Properties of the PhaseService operations                               *)
(***************************************************************************)

\* the operation called in this step, when a call is made
CalledOp == calls'[Len(calls')].op
CalledArg == calls'[Len(calls')].arg
CalledRet == calls'[Len(calls')].ret

PhaseStateUnchanged == UNCHANGED << current_phase, last_transition, total_tokens >>

\* C29 as stated: a step that changes the current phase, the last
\* transition or the stored total is a determine_phase call
C29_OnlyDeterminePhaseWrites ==
    [][~PhaseStateUnchanged => (CallMade /\ CalledOp = "determine_phase")]_vars

\* C29: the PhaseState is modified only by determine_phase and by
\* force_phase called with a valid phase name; get_status_info and a
\* force_phase with an invalid name leave the three fields unchanged, and
\* force_phase never modifies the stored total
C29_PhaseStateWriters ==
    [][/\ ~PhaseStateUnchanged
            => (CallMade /\ CalledOp \in {"determine_phase", "force_phase"})
       /\ (CallMade /\ CalledOp = "get_status_info") => PhaseStateUnchanged
       /\ (CallMade /\ CalledOp = "force_phase")
            => /\ total_tokens' = total_tokens
               /\ upper(CalledArg) \notin {"EXPANSION", "CONVERGENCE"}
                     => PhaseStateUnchanged
      ]_vars

\* force_phase moved the fresh service to CONVERGENCE; get_status_info and
\* a force_phase with an unknown name then left the three fields as they were
C29_Witness ==
    /\ Len(calls) = 3
    /\ calls[1].op = "force_phase" /\ calls[1].ret = "True"
    /\ calls[2].op = "get_status_info"
    /\ calls[2].ret.phase = "CONVERGENCE"
    /\ calls[3].op = "force_phase" /\ calls[3].ret = "False"
    /\ current_phase = "CONVERGENCE"
    /\ total_tokens = 0
    /\ last_transition = 1

\* the totals of the hysteresis band, boundaries included
InBand(t) == EXPANSION_TOKENS <= t /\ t <= CONVERGENCE_TOKENS

\* call i forced a phase and every call after it up to call j is a
\* determine_phase with a total inside the band
ForcedThenInBand(i, j) ==
    /\ calls[i].op = "force_phase"
    /\ calls[i].ret = "True"
    /\ \A k \in (i + 1)..j :
         calls[k].op = "determine_phase" /\ InBand(calls[k].arg)

\* C30: force_phase with a valid name returns True and sets the current
\* phase to it, whatever the stored total; the phase stays through every
\* following determine_phase whose total is inside the band; with an invalid
\* name force_phase returns False and changes none of the three fields
C30_ForcePhase ==
    /\ [][(CallMade /\ CalledOp = "force_phase") =>
            IF upper(CalledArg) \in {"EXPANSION", "CONVERGENCE"}
            THEN /\ CalledRet = "True"
                 /\ current_phase' = upper(CalledArg)
                 /\ total_tokens' = total_tokens
            ELSE /\ CalledRet = "False"
                 /\ PhaseStateUnchanged
         ]_vars
    /\ [](\A i \in DOMAIN calls : \A j \in i..Len(calls) :
            ForcedThenInBand(i, j) =>
               /\ j > i => calls[j].ret = upper(calls[i].arg)
               /\ j = Len(calls) => current_phase = upper(calls[i].arg))

\* with a stored total of 0 the phase was forced to CONVERGENCE and a
\* determine_phase on the lower boundary of the band kept it
C30_Witness ==
    /\ Len(calls) = 3
    /\ calls[1].op = "determine_phase" /\ calls[1].arg = 0
    /\ calls[2].op = "force_phase" /\ calls[2].arg = "Convergence"
    /\ calls[2].ret = "True"
    /\ calls[3].op = "determine_phase" /\ calls[3].arg = EXPANSION_TOKENS
    /\ calls[3].ret = "CONVERGENCE"
    /\ current_phase = "CONVERGENCE"

\* C31: the history the editor appends to during a cycle of an agent is the
\* history the planner reads for that agent: once the planner has created a
\* prompt for an agent and an editor command has been built for it, the
\* chat-history path of the command and the path read by
\* _create_objective_prompt are the same file, so the planner has read every
\* session the editor had recorded before
PlannerReadAfterEditor(a) ==
    /\ hist_pc[a] = "build"
    /\ ed_cmd[a] # NoCommand

C31_SameHistoryFile ==
    \A a \in Planners :
        PlannerReadAfterEditor(a) =>
            /\ chat_file[a] = OptionValue(ed_cmd[a], "--chat-history-file")
            /\ chat_history[a] =
                   hist_files[OptionValue(ed_cmd[a], "--chat-history-file")]

\* C38: building the editor command is idempotent on the environment: after
\* any number of _build_aider_command calls the search path is the bundled
\* editor directory prepended once to the path the process started with
CommandsBuilt == \E a \in Planners : hist_runs[a] > 0

C38_SearchPathIdempotent ==
    CommandsBuilt => environ = PythonPath(environ_before)

\* C33: every phase is launched with the base command in which only the
\* final --message value differs, being the objective followed by the
\* instruction of that phase alone; running a phase leaves the base command
\* as it was, so no instruction of an earlier phase is in a later message
Message(command) == command[Len(command)].val

SameButMessage(command, base) ==
    /\ Len(command) = Len(base)
    /\ \A i \in 1..(Len(base) - 1) : command[i] = base[i]
    /\ command[Len(command)].opt = "--message"

C33_BaseCommandKept ==
    [][ /\ cmd' = cmd
        /\ Message(cmd) \in { << "# Objective", o >> : o \in Objectives }
        /\ \A k \in DOMAIN phase_cmds' :
              /\ SameButMessage(phase_cmds'[k], cmd)
              /\ Message(phase_cmds'[k]) = Message(cmd) \o << PhasePrompts[k] >>
      ]_vars

\* the three phases of one cycle have been launched
C33_Witness ==
    /\ aider_pc = "finished"
    /\ Len(phase_cmds) = 3
    /\ Message(phase_cmds[3]) = Message(cmd) \o << PhasePrompts[3] >>

\* C32: the tree written to map.md never contains an ignored entry: the
\* version-control metadata directory, a file with the reserved dotted
\* prefix of the editor, an entry matched by an ignore pattern
IgnoredEntries ==
    { ".git", "HEAD", ".aider.objective.production.md", "app.log" }

TreeLines(content) == { content[i] : i \in 2..Len(content) }

C32_IgnoredEntriesAbsent ==
    (gen_pc = "returned" /\ gen_result = "True")
        => TreeLines(map_md) \cap IgnoredEntries = {}

\* C34: when a cycle task that acquired an agent finishes, normally or with
\* an exception, the agent leaves _running_agents in that step; so
\* _running_agents is always exactly the set of the agents of the cycles in
\* flight, and an agent whose cycle has finished is not excluded from
\* selection
AgentsInFlight ==
    { task_agent[t] : t \in { u \in TaskIds : task_pc[u] = "executing" } }

Finishes(t) == task_pc[t] = "executing" /\ task_pc'[t] = "done"

C34_AgentReleased ==
    /\ _running_agents = AgentsInFlight
    /\ [][ /\ _running_agents' = AgentsInFlight'
           /\ \A t \in TaskIds :
                 Finishes(t) =>
                    /\ task_result'[t] \in {"ok", "exc"}
                    /\ task_agent[t] \in _running_agents
                    /\ task_agent[t] \notin _running_agents'
                    /\ _running_agents' = _running_agents \ {task_agent[t]}
         ]_vars

\* a cycle has raised and released its agent while another cycle runs
C34_Witness ==
    \E t, u \in TaskIds :
        /\ task_pc[t] = "done"
        /\ task_result[t] = "exc"
        /\ task_pc[u] = "executing"
        /\ _running_agents = { task_agent[u] }

\* C35: the initial spawn creates exactly min(agent_count, number of agents
\* with a role-prompt file) cycle tasks, and every iteration of the
\* maintenance loop starts with that many tasks: the pool neither shrinks
\* nor grows, and run never returns normally
PoolSize == Min(agent_count, Cardinality(available_agents))

HeadroomSign(phase, headroom) ==
    /\ phase = "EXPANSION" => headroom >= 0
    /\ phase = "CONVERGENCE" => headroom <= 0

C36_PhaseStateConsistent ==
    /\ current_phase = "EXPANSION" => total_tokens <= CONVERGENCE_TOKENS
    /\ current_phase = "CONVERGENCE" => total_tokens >= EXPANSION_TOKENS
    /\ \A i \in DOMAIN calls :
          calls[i].op = "get_status_info" =>
              HeadroomSign(calls[i].ret.phase, calls[i].ret.headroom)

\* the status is read in CONVERGENCE at a total inside the band, where the
\* headroom is negative, after the phase was left unchanged by a call
C36_Witness ==
    /\ Len(calls) = 3
    /\ calls[1].op = "determine_phase" /\ calls[1].arg = MODEL_TOKEN_LIMIT
    /\ calls[2].op = "determine_phase" /\ calls[2].arg = EXPANSION_TOKENS + 1
    /\ calls[3].op = "get_status_info"
    /\ calls[3].ret.phase = "CONVERGENCE"
    /\ calls[3].ret.headroom = -1

\* C37: last_transition changes exactly when current_phase changes: a
\* determine_phase or force_phase call that leaves the phase unchanged leaves
\* last_transition unchanged, and a call that changes the phase sets
\* last_transition to the time of that call in the same step
C37_TransitionWithPhase ==
    [][ /\ (current_phase' # current_phase)
              <=> (last_transition' # last_transition)
        /\ current_phase' # current_phase => last_transition' = now'
      ]_vars

\* the phase was forced to CONVERGENCE by the first call and a
\* determine_phase inside the band left phase and transition time alone
C37_Witness ==
    /\ Len(calls) = 3
    /\ calls[1].op = "force_phase" /\ calls[1].ret = "True"
    /\ calls[2].op = "determine_phase" /\ calls[2].arg = EXPANSION_TOKENS
    /\ calls[3].op = "force_phase" /\ calls[3].arg = "Convergence"
    /\ current_phase = "CONVERGENCE"
    /\ last_transition = 1
    /\ now = 3

====
